---- MODULE Spec2Model ----
(***************************************************************************)
(* Luna: lexically scoped environments (env.cpp), the lexer (lexer.c), the *)
(* recursive-descent parser (parser.cpp), the tree-walking interpreter     *)
(* (interpreter.cpp) and the file mode of main() (main.cpp).               *)
(*                                                                         *)
(* Two specifications share the variables:                                 *)
(*   Spec    - main(): parse a source file, then interpret it              *)
(*   SpecEnv - the environment API driven by arbitrary calls               *)
(***************************************************************************)
EXTENDS Integers, Sequences, FiniteSets, TLC

VARIABLES
    pc,                 \* position of the driver
    src_text,           \* main(): the text read from the source file
    build,              \* what the build does on integer remainder by zero
    stdin,              \* the lines waiting on standard input
    rng,                \* the numbers math_internal_next() returns next
    parser,             \* struct Parser, with the diagnostics it reported
    items,              \* parser_parse_program: NodeList items collected so far
    prog,               \* result of parser_parse_program (NullNode or a block)
    ip,                 \* interpret(): index of the next top-level statement
    envs,               \* heap of Env structs, indexed by address (1..Len)
    return_exception,   \* static ReturnException  {active, value}
    loop_exception,     \* static LoopException    {break_active, continue_active}
    out,                \* lines printed on standard output
    errs,               \* categories passed to error_report, in order
    trace,              \* execution events of the interpreter
    status,             \* "running", "crashed" (signal) or "exited" (exit(1))
    cur,                \* SpecEnv: the innermost live scope
    call,               \* SpecEnv: the last API call and what it returned
    nops                \* SpecEnv: number of API calls made

vars == <<pc, src_text, build, stdin, rng, parser, items, prog, ip, envs,
          return_exception, loop_exception, out, errs, trace, status,
          cur, call, nops>>

(***************************************************************************)
(* Program constants and model bounds                                      *)
(***************************************************************************)
MAX_VARS == 256
MAX_FUNCS == 64

MaxOps == 5         \* SpecEnv: number of API calls in one behaviour
MaxDepth == 3       \* SpecEnv: depth of the scope chain
MaxOperand == 3     \* SpecBinop: the integer operands are -MaxOperand..MaxOperand
MaxIter == 12       \* interpreter: loop iterations and calls in one run
Names == {"x", "y"} \* the variable names calls and checks range over

Max(S) == CHOOSE m \in S : \A k \in S : k <= m
Min(S) == CHOOSE m \in S : \A k \in S : m <= k

(***************************************************************************)
(* Values (value.h, value.cpp).  A float is the exact rational num/den,    *)
(* den > 0, in lowest terms.                                               *)
(***************************************************************************)
value_int(x) == [type |-> "VAL_INT", i |-> x]
value_bool(b) == [type |-> "VAL_BOOL", b |-> IF b THEN 1 ELSE 0]
value_string(s) == [type |-> "VAL_STRING", s |-> s]
value_char(c) == [type |-> "VAL_CHAR", c |-> c]
value_null == [type |-> "VAL_NULL"]
NulChar == "NUL"            \* the char with code 0
\* f names the FILE object: the position in trace of the fopen that
\* created it, 0 for NULL
value_file(f) == [type |-> "VAL_FILE", file |-> f]
value_native(fn) == [type |-> "VAL_NATIVE", native |-> fn]
\* a Value* inside a scope: the variable's location and the indices below it
NullRef == [env |-> 0, idx |-> 0, path |-> <<>>]
\* a list: its items, and whose block list.items points to (items_of is the
\* Value the block was allocated for; NullRef: a block of its own)
value_list(elems) == [type |-> "VAL_LIST", list |-> elems, items_of |-> NullRef]

Abs(x) == IF x < 0 THEN -x ELSE x

RECURSIVE Gcd(_, _)
Gcd(a, b) == IF b = 0 THEN a ELSE Gcd(b, a % b)

\* the double num/den
value_float(num, den) ==
    LET s == IF den < 0 THEN -1 ELSE 1
        g == Gcd(Abs(num), Abs(den))
    IN  [type |-> "VAL_FLOAT", num |-> (s * num) \div g, den |-> (s * den) \div g]

\* the struct copy Value r = v: a list's items stay in the block of v
value_copy_shallow(v) == v
\* value_copy: the items of a list go, copied one by one, to a new block
RECURSIVE value_copy(_)
value_copy(v) ==
    IF v.type = "VAL_LIST"
    THEN value_list([k \in 1..Len(v.list) |-> value_copy(v.list[k])])
    ELSE v

value_list_append(l, v) == [l EXCEPT !.list = Append(@, value_copy(v))]

(***************************************************************************)
(* Environments (env.cpp).  A pointer to an Env is its index in envs, 0 is *)
(* NULL; a Value* into a scope is a location {env, idx}.                   *)
(***************************************************************************)
NullLoc == [env |-> 0, idx |-> 0]

\* live and freed are not fields of Env: live tells whether the Env has been
\* passed to free(), freed counts the calls of env_free on it
env_create(heap, parent) ==
    Append(heap, [vars |-> <<>>, funcs |-> <<>>, parent |-> parent, live |-> TRUE,
                  freed |-> 0])

\* an env_free that releases nothing
env_free_none(heap, e) == heap

env_free(heap, e) ==
    IF e = 0 THEN heap ELSE [heap EXCEPT ![e].live = FALSE, ![e].freed = @ + 1]

\* the index a forward loop over one scope stops at (0: no match)
FindVarFirst(vs, name) ==
    LET m == {k \in 1..Len(vs) : vs[k].name = name}
    IN  IF m = {} THEN 0 ELSE Min(m)

\* the index env_get's backward loop stops at in one scope (0: no match)
FindVar(vs, name) ==
    LET m == {k \in 1..Len(vs) : vs[k].name = name}
    IN  IF m = {} THEN 0 ELSE Max(m)

RECURSIVE env_get(_, _, _)
env_get(heap, e, name) ==
    IF e = 0 THEN NullLoc
    ELSE LET k == FindVar(heap[e].vars, name)
         IN  IF k # 0 THEN [env |-> e, idx |-> k]
             ELSE env_get(heap, heap[e].parent, name)

Deref(heap, loc) == heap[loc.env].vars[loc.idx].val
\* *v for the Value* v = env_get(...): the Value as a struct, whose items (if
\* it is a list) are in the block of the variable at loc
Stored(heap, loc) ==
    LET v == Deref(heap, loc)
    IN  IF v.type = "VAL_LIST" /\ v.items_of = NullRef
        THEN [v EXCEPT !.items_of = [env |-> loc.env, idx |-> loc.idx, path |-> <<>>]]
        ELSE v

env_def(heap, e, name, val) ==
    IF Len(heap[e].vars) < MAX_VARS
    THEN [heap EXCEPT ![e].vars = Append(@, [name |-> name, val |-> value_copy(val)])]
    ELSE heap

\* env_assign whose loop over a scope runs forward: it updates the oldest
\* declaration of the name in the innermost scope that has one
env_assign_oldest(heap, e, name, val) ==
    LET loc == env_get(heap, e, name)
    IN  IF loc # NullLoc
        THEN [heap |-> [heap EXCEPT ![loc.env].vars[FindVarFirst(heap[loc.env].vars, name)].val
                                        = value_copy(val)],
              err |-> FALSE]
        ELSE [heap |-> heap, err |-> TRUE]

\* env_assign that binds the name in e when no scope of the chain has it
env_assign_creating(heap, e, name, val) ==
    LET loc == env_get(heap, e, name)
    IN  IF loc # NullLoc
        THEN [heap |-> [heap EXCEPT ![loc.env].vars[loc.idx].val = value_copy(val)],
              err |-> FALSE]
        ELSE [heap |-> env_def(heap, e, name, val), err |-> TRUE]

\* env_assign: the heap afterwards, and whether ERR_NAME was reported
env_assign(heap, e, name, val) ==
    LET loc == env_get(heap, e, name)
    IN  IF loc # NullLoc
        THEN [heap |-> [heap EXCEPT ![loc.env].vars[loc.idx].val = value_copy(val)],
              err |-> FALSE]
        ELSE [heap |-> heap, err |-> TRUE]

env_def_func(heap, e, name, def) ==
    IF Len(heap[e].funcs) < MAX_FUNCS
    THEN [heap EXCEPT ![e].funcs = Append(@, [name |-> name, funcdef |-> def])]
    ELSE heap

NullNode == [kind |-> "NULL"]

RECURSIVE env_get_func(_, _, _)
env_get_func(heap, e, name) ==
    IF e = 0 THEN NullNode
    ELSE LET m == {k \in 1..Len(heap[e].funcs) : heap[e].funcs[k].name = name}
         IN  IF m # {} THEN heap[e].funcs[Min(m)].funcdef
             ELSE env_get_func(heap, heap[e].parent, name)

(***************************************************************************)
(* Arithmetic of the C operators on long long and double                   *)
(***************************************************************************)
EPSILON_DEN == 1000000      \* EPSILON is 1 / EPSILON_DEN

Sign(x) == IF x < 0 THEN -1 ELSE 1
CDiv(a, b) == Sign(a) * Sign(b) * (Abs(a) \div Abs(b))   \* b # 0, truncating
CRem(a, b) == Sign(a) * (Abs(a) % Abs(b))                \* b # 0, sign of a

IsNum(v) == v.type \in {"VAL_INT", "VAL_FLOAT"}
Num(v) == IF v.type = "VAL_INT" THEN v.i ELSE v.num      \* (double)v as Num/Den
Den(v) == IF v.type = "VAL_INT" THEN 1 ELSE v.den
Trunc(v) == CDiv(Num(v), Den(v))                         \* (long long)(double)v

\* the outcome of the undefined l % 0, by build: a trap (SIGFPE: x86 idiv)
\* or the dividend (AArch64 sdiv/msub)
Trap == [type |-> "TRAP"]
Builds == {"trap", "quiet"}
\* what math_internal_next() returns, call after call (the generator's state)
Seeds == {<<0, 1>>, <<1, 0>>}
int_mod(b, l, r) ==
    IF r = 0 THEN (IF b = "trap" THEN Trap ELSE value_int(l))
    ELSE value_int(CRem(l, r))

(***************************************************************************)
(* value_to_string (value.cpp)                                             *)
(***************************************************************************)
RECURSIVE Digits(_, _, _)
\* k decimal digits of the fraction n/d (0 <= n < d)
Digits(n, d, k) ==
    IF k = 0 THEN "" ELSE ToString((10 * n) \div d) \o Digits((10 * n) % d, d, k - 1)

RECURSIVE StripZeros(_, _, _, _)
\* the shortest k' <= k with the fraction n/d exact in k' digits, else k
StripZeros(n, d, k, kk) ==
    IF kk >= k THEN k
    ELSE IF n = 0 THEN kk ELSE StripZeros((10 * n) % d, d, k, kk + 1)

\* "%.6g" of num/den for values that need no exponent and no rounding up
\* of the integer part: six significant digits, trailing zeros removed
FloatToString(num, den) ==
    LET a == Abs(num)
        ip_ == a \div den
        fr == a % den
        intDigits == IF ip_ = 0 THEN 0 ELSE Len(ToString(ip_))
        k == IF 6 - intDigits < 0 THEN 0 ELSE 6 - intDigits
        kk == StripZeros(fr, den, k, 0)
        sgn == IF num < 0 THEN "-" ELSE ""
    IN  sgn \o ToString(ip_) \o (IF kk = 0 THEN "" ELSE "." \o Digits(fr, den, kk))

RECURSIVE value_to_string(_)
RECURSIVE JoinItems(_, _)
JoinItems(l, k) ==
    IF k > Len(l) THEN ""
    ELSE value_to_string(l[k]) \o (IF k < Len(l) THEN ", " ELSE "") \o JoinItems(l, k + 1)

value_to_string(v) ==
    CASE v.type = "VAL_INT" -> ToString(v.i)
      [] v.type = "VAL_FLOAT" -> FloatToString(v.num, v.den)
      [] v.type = "VAL_BOOL" -> (IF v.b # 0 THEN "true" ELSE "false")
      [] v.type = "VAL_CHAR" -> v.c
      [] v.type = "VAL_NATIVE" -> "<native function>"
      [] v.type = "VAL_STRING" -> v.s
      [] v.type = "VAL_LIST" -> "[" \o JoinItems(v.list, 1) \o "]"
      [] OTHER -> "null"

(***************************************************************************)
(* vec_lib.cpp: element-wise list arithmetic used by eval_binop            *)
(***************************************************************************)
get_val(v) == IF IsNum(v) THEN v ELSE value_float(0, 1)

vec_op_direct(a, b, op) ==
    LET count == IF Len(a.list) < Len(b.list) THEN Len(a.list) ELSE Len(b.list)
        x(k) == get_val(a.list[k])
        y(k) == get_val(b.list[k])
        cell(k) ==
            CASE op = "OP_ADD" -> value_float(Num(x(k)) * Den(y(k)) + Num(y(k)) * Den(x(k)), Den(x(k)) * Den(y(k)))
              [] op = "OP_SUB" -> value_float(Num(x(k)) * Den(y(k)) - Num(y(k)) * Den(x(k)), Den(x(k)) * Den(y(k)))
              [] op = "OP_MUL" -> value_float(Num(x(k)) * Num(y(k)), Den(x(k)) * Den(y(k)))
              [] OTHER -> IF Num(y(k)) # 0
                          THEN value_float(Num(x(k)) * Den(y(k)), Den(x(k)) * Num(y(k)))
                          ELSE value_float(0, 1)
    IN  value_list([k \in 1..count |-> cell(k)])

(***************************************************************************)
(* is_truthy and eval_binop (interpreter.cpp)                              *)
(***************************************************************************)
is_truthy(v) ==
    CASE v.type = "VAL_BOOL" -> v.b # 0
      [] v.type = "VAL_INT" -> v.i # 0
      [] v.type = "VAL_FLOAT" -> v.num # 0
      [] v.type = "VAL_STRING" -> v.s # ""
      [] v.type = "VAL_NULL" -> FALSE
      [] v.type = "VAL_LIST" -> TRUE
      [] v.type = "VAL_NATIVE" -> TRUE
      [] v.type = "VAL_CHAR" -> v.c # NulChar
      [] OTHER -> FALSE

BinOps == {"OP_ADD", "OP_SUB", "OP_MUL", "OP_DIV", "OP_MOD", "OP_EQ", "OP_NEQ",
           "OP_LT", "OP_GT", "OP_LTE", "OP_GTE"}

\* integer operations whose / stays an integer when the division is exact
int_binop_exact(b, op, l, r) ==
    CASE op = "OP_ADD" -> value_int(l.i + r.i)
      [] op = "OP_SUB" -> value_int(l.i - r.i)
      [] op = "OP_MUL" -> value_int(l.i * r.i)
      [] op = "OP_DIV" -> IF r.i = 0 THEN value_int(0)
                          ELSE IF CRem(l.i, r.i) = 0 THEN value_int(CDiv(l.i, r.i))
                          ELSE value_float(l.i, r.i)
      [] op = "OP_MOD" -> int_mod(b, l.i, r.i)
      [] op = "OP_EQ" -> value_bool(l.i = r.i)
      [] op = "OP_NEQ" -> value_bool(l.i # r.i)
      [] op = "OP_LT" -> value_bool(l.i < r.i)
      [] op = "OP_GT" -> value_bool(l.i > r.i)
      [] op = "OP_LTE" -> value_bool(l.i <= r.i)
      [] op = "OP_GTE" -> value_bool(l.i >= r.i)
\* eval_binop, both operands VAL_INT
int_binop(b, op, l, r) ==
    CASE op = "OP_ADD" -> value_int(l.i + r.i)
      [] op = "OP_SUB" -> value_int(l.i - r.i)
      [] op = "OP_MUL" -> value_int(l.i * r.i)
      [] op = "OP_DIV" -> IF r.i = 0 THEN value_int(0) ELSE value_float(l.i, r.i)
      [] op = "OP_MOD" -> int_mod(b, l.i, r.i)
      [] op = "OP_EQ" -> value_bool(l.i = r.i)
      [] op = "OP_NEQ" -> value_bool(l.i # r.i)
      [] op = "OP_LT" -> value_bool(l.i < r.i)
      [] op = "OP_GT" -> value_bool(l.i > r.i)
      [] op = "OP_LTE" -> value_bool(l.i <= r.i)
      [] op = "OP_GTE" -> value_bool(l.i >= r.i)

\* the value returned, or Trap when the process receives a signal instead
eval_binop(b, op, l, r) ==
    IF l.type = "VAL_INT" /\ r.type = "VAL_INT" /\ op \in BinOps
    THEN int_binop(b, op, l, r)
    ELSE IF IsNum(l) /\ IsNum(r) /\ op \in BinOps
    THEN LET ln == Num(l) * Den(r)      \* dl and dr over the common denominator
             rn == Num(r) * Den(l)
             dd == Den(l) * Den(r)
         IN  CASE op = "OP_ADD" -> value_float(ln + rn, dd)
               [] op = "OP_SUB" -> value_float(ln - rn, dd)
               [] op = "OP_MUL" -> value_float(Num(l) * Num(r), dd)
               [] op = "OP_DIV" -> IF rn = 0 THEN value_float(0, 1) ELSE value_float(ln, rn)
               [] op = "OP_MOD" -> int_mod(b, Trunc(l), Trunc(r))
               [] op = "OP_EQ" -> value_bool(Abs(ln - rn) * EPSILON_DEN < dd)
               [] op = "OP_NEQ" -> value_bool(Abs(ln - rn) * EPSILON_DEN >= dd)
               [] op = "OP_LT" -> value_bool(ln < rn)
               [] op = "OP_GT" -> value_bool(ln > rn)
               [] op = "OP_LTE" -> value_bool(ln <= rn)
               [] op = "OP_GTE" -> value_bool(ln >= rn)
    ELSE IF l.type = "VAL_STRING" /\ r.type = "VAL_STRING" /\ op \in {"OP_EQ", "OP_NEQ"}
    THEN value_bool((l.s = r.s) = (op = "OP_EQ"))
    ELSE IF op \in {"OP_EQ", "OP_NEQ"} /\ l.type = "VAL_BOOL" /\ r.type = "VAL_BOOL"
    THEN value_bool((l.b = r.b) = (op = "OP_EQ"))
    ELSE IF op \in {"OP_EQ", "OP_NEQ"} /\ l.type = "VAL_NULL" /\ r.type = "VAL_NULL"
    THEN value_bool(op = "OP_EQ")
    ELSE IF op \in {"OP_EQ", "OP_NEQ"} /\ (l.type = "VAL_NULL" \/ r.type = "VAL_NULL")
    THEN value_bool(op = "OP_NEQ")
    ELSE IF l.type = "VAL_CHAR" /\ r.type = "VAL_CHAR" /\ op \in {"OP_EQ", "OP_NEQ"}
    THEN value_bool((l.c = r.c) = (op = "OP_EQ"))
    ELSE IF op = "OP_ADD" /\ (l.type = "VAL_STRING" \/ r.type = "VAL_STRING")
    THEN value_string(value_to_string(l) \o value_to_string(r))
    ELSE IF l.type = "VAL_LIST" /\ r.type = "VAL_LIST"
            /\ op \in {"OP_ADD", "OP_SUB", "OP_MUL", "OP_DIV"}
    THEN vec_op_direct(l, r, op)
    ELSE value_null

(***************************************************************************)
(* Interpreter state threaded through eval_expr / exec_stmt.  Every update *)
(* is void once the process has stopped.                                   *)
(***************************************************************************)
Running(s) == s.status = "running"
SetEnvs(s, heap) == IF Running(s) THEN [s EXCEPT !.envs = heap] ELSE s
Ev(s, event) == IF Running(s) THEN [s EXCEPT !.trace = Append(@, event)] ELSE s
Report(s, cat) == IF Running(s) THEN [s EXCEPT !.errs = Append(@, cat)] ELSE s
Stop(s, how) == IF Running(s) THEN [s EXCEPT !.status = how] ELSE s
Res(s, v) == [st |-> s, v |-> IF Running(s) THEN v ELSE value_null]

RECURSIVE GetAt(_, _)
GetAt(v, path) == IF path = <<>> THEN v ELSE GetAt(v.list[Head(path)], Tail(path))
RECURSIVE SetAt(_, _, _)
SetAt(v, path, w) ==
    IF path = <<>> THEN w
    ELSE [v EXCEPT !.list[Head(path)] = SetAt(@, Tail(path), w)]
RefGet(heap, ref) == GetAt(heap[ref.env].vars[ref.idx].val, ref.path)
RefSet(heap, ref, w) ==
    [heap EXCEPT ![ref.env].vars[ref.idx].val = SetAt(@, ref.path, w)]
\* the variables whose list has its items in the same block as the variable
\* of ref has
SameBlock(heap, ref) ==
    LET top == [env |-> ref.env, idx |-> ref.idx, path |-> <<>>]
        v == RefGet(heap, top)
        owner == IF v.type = "VAL_LIST" /\ v.items_of # NullRef THEN v.items_of ELSE top
    IN  {top} \cup
        {r \in {[env |-> e, idx |-> k, path |-> <<>>] :
                    e \in 1..Len(heap), k \in 1..MAX_VARS} :
            /\ r.idx <= Len(heap[r.env].vars)
            /\ \/ r = owner
               \/ /\ RefGet(heap, r).type = "VAL_LIST"
                  /\ RefGet(heap, r).items_of = owner}
\* *slot = w for the slot ref points to: the write shows in every list whose
\* items are in the block written to
RECURSIVE StoreAll(_, _, _, _)
StoreAll(heap, tops, path, w) ==
    IF tops = {} THEN heap
    ELSE LET r == CHOOSE x \in tops : TRUE
         IN  StoreAll(RefSet(heap, [r EXCEPT !.path = path], w), tops \ {r}, path, w)
Store(heap, ref, w) == StoreAll(heap, SameBlock(heap, ref), ref.path, w)

\* the heap after a write through the Value* ref, noted in the trace
NoteStore(s, ref, heap) ==
    Ev(SetEnvs(s, heap), [ev |-> "store", ref |-> ref, before |-> s.envs, after |-> heap,
                          depth |-> s.depth])

\* the scope in which env_get_func finds the definition (0: none)
RECURSIVE FuncHome(_, _, _)
FuncHome(heap, e, name) ==
    IF e = 0 THEN 0
    ELSE IF \E k \in 1..Len(heap[e].funcs) : heap[e].funcs[k].name = name THEN e
    ELSE FuncHome(heap, heap[e].parent, name)

\* the scopes of a heap without their contents
Shape(heap) ==
    [k \in 1..Len(heap) |->
        [parent |-> heap[k].parent, live |-> heap[k].live, freed |-> heap[k].freed]]

\* the three control-flow flags
Flags(s) ==
    [ret |-> s.return_exception.active, brk |-> s.loop_exception.break_active,
     cont |-> s.loop_exception.continue_active]

\* the flags an enclosing body loop tests after each statement
Pending(s, which) ==
    \/ ~Running(s)
    \/ s.return_exception.active
    \/ which = "all" /\ (s.loop_exception.break_active \/ s.loop_exception.continue_active)

ClearBreak(s, by, scope) ==
    IF s.loop_exception.break_active
    THEN Ev([s EXCEPT !.loop_exception.break_active = FALSE],
            [ev |-> "consume_break", by |-> by, scope |-> scope, depth |-> s.depth])
    ELSE s
ClearContinue(s, by, scope) ==
    IF s.loop_exception.continue_active
    THEN Ev([s EXCEPT !.loop_exception.continue_active = FALSE],
            [ev |-> "consume_continue", by |-> by, scope |-> scope, depth |-> s.depth])
    ELSE s

\* the comparison NODE_SWITCH makes between its subject and a case value
switch_eq(val, cval) ==
    IF val.type = cval.type
    THEN CASE val.type = "VAL_INT" -> val.i = cval.i
           [] val.type = "VAL_FLOAT" -> val.num = cval.num /\ val.den = cval.den
           [] val.type = "VAL_STRING" -> val.s = cval.s
           [] val.type = "VAL_BOOL" -> val.b = cval.b
           [] val.type = "VAL_CHAR" -> val.c = cval.c
           [] OTHER -> FALSE
    ELSE IF val.type = "VAL_INT" /\ cval.type = "VAL_FLOAT"
    THEN val.i * cval.den = cval.num
    ELSE IF val.type = "VAL_FLOAT" /\ cval.type = "VAL_INT"
    THEN val.num = cval.i * val.den
    ELSE FALSE

(***************************************************************************)
(* Native functions (library.cpp, list_lib.c, string_lib.cpp): the value   *)
(* returned, the argument vector afterwards, and the effect on the process *)
(***************************************************************************)
lib_is_truthy(v) == is_truthy(v)

\* (long long)c for NUL, digits and letters (the chars the programs use)
AsciiFrom(first, chars, c) ==
    LET m == {k \in 1..Len(chars) : SubSeq(chars, k, k) = c}
    IN  IF m = {} THEN 0 ELSE first - 1 + Min(m)
CharCode(c) ==
    AsciiFrom(48, "0123456789", c)
    + AsciiFrom(65, "ABCDEFGHIJKLMNOPQRSTUVWXYZ", c)
    + AsciiFrom(97, "abcdefghijklmnopqrstuvwxyz", c)

\* strcmp(a, b) < 0
RECURSIVE strcmp_lt(_, _)
strcmp_lt(a, b) ==
    IF b = "" THEN FALSE
    ELSE IF a = "" THEN TRUE
    ELSE LET ca == CharCode(SubSeq(a, 1, 1))
             cb == CharCode(SubSeq(b, 1, 1))
         IN  IF ca # cb THEN ca < cb
             ELSE strcmp_lt(SubSeq(a, 2, Len(a)), SubSeq(b, 2, Len(b)))

value_less_than(a, b) ==
    IF IsNum(a) /\ IsNum(b) THEN Num(a) * Den(b) < Num(b) * Den(a)
    ELSE IF a.type = "VAL_STRING" /\ b.type = "VAL_STRING" THEN strcmp_lt(a.s, b.s)
    ELSE FALSE

\* insertion_sort, the inner loop: key goes left past the items it is less than
RECURSIVE insert_key(_, _)
insert_key(sorted, key) ==
    IF sorted = <<>> \/ ~value_less_than(key, sorted[Len(sorted)])
    THEN Append(sorted, key)
    ELSE Append(insert_key(SubSeq(sorted, 1, Len(sorted) - 1), key), sorted[Len(sorted)])
\* insertion_sort, the outer loop from item i on
RECURSIVE insertion_sort(_, _)
insertion_sort(l, i) ==
    IF i > Len(l) THEN l
    ELSE insertion_sort(insert_key(SubSeq(l, 1, i - 1), l[i]) \o SubSeq(l, i + 1, Len(l)), i + 1)
\* hybrid_sort on a list of fewer than SORT_THRESHOLD items (those the programs build)
SORT_THRESHOLD == 16
hybrid_sort(l) == insertion_sort(l, 2)

\* lib_list_shuffle, the loop from index i (0-based) down: the items and the
\* generator afterwards; math_internal_next() takes the numbers of rng in turn
math_internal_next(r) == [v |-> Head(r), rng |-> Append(Tail(r), Head(r))]
Swap(l, a, b) == [l EXCEPT ![a] = l[b], ![b] = l[a]]
RECURSIVE shuffle_from(_, _, _)
shuffle_from(l, r, i) ==
    IF i <= 0 THEN [list |-> l, rng |-> r]
    ELSE LET d == math_internal_next(r)
             j == d.v % (i + 1)
         IN  shuffle_from(Swap(l, i + 1, j + 1), d.rng, i - 1)

\* get_file_ptr
get_file_ptr(v) == IF v.type = "VAL_FILE" THEN v.file ELSE 0

\* the stream f has been opened by fopen and not closed by fclose since
IsOpen(s, f) ==
    /\ f \in 1..Len(s.trace) /\ s.trace[f].ev = "fopen"
    /\ \A k \in 1..Len(s.trace) : ~(s.trace[k].ev = "fclose" /\ s.trace[k].file = f)

\* fopen(path, mode): fails on the empty path
lib_file_open(s, argv) ==
    IF Len(argv) # 2 THEN [st |-> s, v |-> value_null, argv |-> argv]
    ELSE IF argv[1].type # "VAL_STRING" \/ argv[2].type # "VAL_STRING"
    THEN [st |-> s, v |-> value_null, argv |-> argv]
    ELSE IF argv[1].s = "" THEN [st |-> s, v |-> value_null, argv |-> argv]
    ELSE [st |-> Ev(s, [ev |-> "fopen", file |-> Len(s.trace) + 1, depth |-> s.depth]),
          v |-> value_file(Len(s.trace) + 1), argv |-> argv]

\* lib_file_close: fclose(f) and argv[0].file = NULL.  fclose on a stream
\* that is closed already has undefined behaviour: the process is ended by a
\* signal or goes on
lib_file_close(s, argv) ==
    IF Len(argv) # 1 \/ get_file_ptr(argv[1]) = 0
    THEN [st |-> s, v |-> value_null, argv |-> argv]
    ELSE LET f == get_file_ptr(argv[1])
             s1 == Ev(s, [ev |-> "fclose", file |-> f, open |-> IsOpen(s, f),
                          depth |-> s.depth])
         IN  [st |-> IF ~IsOpen(s, f) /\ s.build = "trap" THEN Stop(s1, "crashed") ELSE s1,
              v |-> value_null,
              argv |-> <<[argv[1] EXCEPT !.file = 0]>>]

native_call(s, fn, argv) ==
    CASE fn = "lib_assert" ->
            IF Len(argv) # 1
            THEN [st |-> Stop(Report(s, "ERR_ARGUMENT"), "exited"), v |-> value_null, argv |-> argv]
            ELSE IF ~lib_is_truthy(argv[1])
            THEN [st |-> Stop(Report(s, "ERR_ASSERTION"), "exited"), v |-> value_null, argv |-> argv]
            ELSE [st |-> s, v |-> value_bool(TRUE), argv |-> argv]
      [] fn = "lib_list_sort" ->
            IF Len(argv) # 1 \/ argv[1].type # "VAL_LIST"
            THEN [st |-> Report(s, "ERR_ARGUMENT"), v |-> value_null, argv |-> argv]
            ELSE [st |-> s, v |-> value_null,
                  argv |-> <<[argv[1] EXCEPT !.list = hybrid_sort(@)]>>]
      [] fn = "lib_list_shuffle" ->
            IF Len(argv) # 1 \/ argv[1].type # "VAL_LIST"
            THEN [st |-> Report(s, "ERR_ARGUMENT"), v |-> value_null, argv |-> argv]
            ELSE LET sh == shuffle_from(argv[1].list, s.rng, Len(argv[1].list) - 1)
                 IN  [st |-> [s EXCEPT !.rng = sh.rng], v |-> value_null,
                      argv |-> <<[argv[1] EXCEPT !.list = sh.list]>>]
      [] fn = "lib_str_len" ->
            IF Len(argv) # 1
            THEN [st |-> Report(s, "ERR_ARGUMENT"), v |-> value_null, argv |-> argv]
            ELSE IF argv[1].type = "VAL_STRING"
            THEN [st |-> s, v |-> value_int(Len(argv[1].s)), argv |-> argv]
            ELSE IF argv[1].type = "VAL_LIST"
            THEN [st |-> s, v |-> value_int(Len(argv[1].list)), argv |-> argv]
            ELSE [st |-> Report(s, "ERR_ARGUMENT"), v |-> value_null, argv |-> argv]
      [] fn = "lib_file_open" -> lib_file_open(s, argv)
      [] fn = "lib_file_close" -> lib_file_close(s, argv)
      [] OTHER -> [st |-> s, v |-> value_null, argv |-> argv]

(***************************************************************************)
(* eval_expr and exec_stmt (interpreter.cpp)                               *)
(***************************************************************************)
\* eval_expr and exec_stmt call each other, directly and through the
\* helpers below; interp ties the recursion: it runs the body of the one
\* (eval_expr_def) or of the other (exec_stmt_def)
RECURSIVE interp(_, _, _, _)
eval_expr(s, e, n) == interp("eval_expr", s, e, n)
exec_stmt(s, e, n) == interp("exec_stmt", s, e, n)

RECURSIVE eval_items(_, _, _, _, _), get_mutable_value(_, _, _),
          bind_params(_, _, _, _, _, _),
          exec_body(_, _, _, _, _), while_loop(_, _, _), for_loop(_, _, _),
          switch_cases(_, _, _, _, _), eval_args(_, _, _, _, _),
          write_back(_, _, _, _, _)

\* evaluate items[k..] left to right, collecting deep copies
eval_items(s, e, nodes, k, acc) ==
    IF k > Len(nodes) THEN [st |-> s, vs |-> acc]
    ELSE LET r == eval_expr(s, e, nodes[k])
         IN  eval_items(r.st, e, nodes, k + 1, Append(acc, value_copy(r.v)))

get_mutable_value(s, e, n) ==
    IF n.kind = "NODE_IDENT"
    THEN LET loc == env_get(s.envs, e, n.name)
         IN  [st |-> s, ref |-> [env |-> loc.env, idx |-> loc.idx, path |-> <<>>]]
    ELSE IF n.kind = "NODE_INDEX"
    THEN LET t == get_mutable_value(s, e, n.target)
         IN  IF t.ref = NullRef \/ RefGet(t.st.envs, t.ref).type # "VAL_LIST"
             THEN [st |-> t.st, ref |-> NullRef]
             ELSE LET ix == eval_expr(t.st, e, n.index)
                      lst == RefGet(ix.st.envs, t.ref)
                  IN  IF ix.v.type # "VAL_INT" THEN [st |-> ix.st, ref |-> NullRef]
                      ELSE IF ix.v.i < 0 \/ ix.v.i >= Len(lst.list)
                      THEN [st |-> Report(ix.st, "ERR_INDEX"), ref |-> NullRef]
                      ELSE [st |-> ix.st,
                            ref |-> [t.ref EXCEPT !.path = Append(@, ix.v.i + 1)]]
    ELSE [st |-> s, ref |-> NullRef]

\* an index expression as strict as an index assignment
index_read_strict(s, target, idx) ==
    IF target.type = "VAL_LIST" /\ idx.type = "VAL_INT"
       /\ idx.i >= 0 /\ idx.i < Len(target.list)
    THEN Res(s, value_copy(target.list[idx.i + 1]))
    ELSE Res(Report(s, "ERR_INDEX"), value_null)
\* NODE_INC (d = 1) and NODE_DEC (d = -1) on the Value* loc that env_get found
inc_dec(s, loc, d) ==
    LET old == IF loc # NullLoc THEN Deref(s.envs, loc) ELSE value_null
    IN  IF old.type = "VAL_INT"
        THEN Res(SetEnvs(s, [s.envs EXCEPT ![loc.env].vars[loc.idx].val.i = @ + d]), old)
        ELSE IF old.type = "VAL_FLOAT"
        THEN Res(SetEnvs(s, [s.envs EXCEPT ![loc.env].vars[loc.idx].val =
                                value_float(old.num + d * old.den, old.den)]), old)
        ELSE Res(s, value_null)
inc_noted(s, n, loc, r) ==
    Res(Ev(r.st, [ev |-> n.kind, name |-> n.name, loc |-> loc, v |-> r.v,
                  before |-> s.envs, after |-> r.st.envs, depth |-> s.depth]),
        r.v)

\* NODE_INDEX once target and index are evaluated: the value and the state
index_read(s, target, idx) ==
    IF target.type = "VAL_LIST" /\ idx.type = "VAL_INT"
       /\ idx.i >= 0 /\ idx.i < Len(target.list)
    THEN Res(s, value_copy(target.list[idx.i + 1]))
    ELSE Res(s, value_null)
index_read_noted(target, ix, r) ==
    Res(Ev(r.st, [ev |-> "index", target |-> target.v, i |-> ix.v, v |-> r.v,
                  reported |-> SubSeq(r.st.errs, Len(ix.st.errs) + 1, Len(r.st.errs))]),
        r.v)
index_with(target, ix) == index_read_noted(target, ix, index_read(ix.st, target.v, ix.v))
index_of(e, n, target) == index_with(target, eval_expr(target.st, e, n.index))

\* NODE_ASSIGN_INDEX once the list is found at ref and the index is evaluated
assign_slot(s, ref, idx, val) ==
    IF idx.type # "VAL_INT" THEN Report(s, "ERR_TYPE")
    ELSE IF idx.i < 0 \/ idx.i >= Len(RefGet(s.envs, ref).list)
    THEN Report(s, "ERR_INDEX")
    ELSE NoteStore(s, ref, Store(s.envs, [ref EXCEPT !.path = Append(@, idx.i + 1)],
                                 value_copy(val)))
assign_slot_noted(ref, ix, s1) ==
    Ev(s1, [ev |-> "assign_index", i |-> ix.v, len |-> Len(RefGet(ix.st.envs, ref).list),
            before |-> ix.st.envs, after |-> s1.envs,
            reported |-> SubSeq(s1.errs, Len(ix.st.errs) + 1, Len(s1.errs))])
assign_index(ref, ix, val) == assign_slot_noted(ref, ix, assign_slot(ix.st, ref, ix.v, val))

\* NODE_CALL, user function: bind parameter k and the following ones
bind_params(s, e, scope, params, args, k) ==
    IF k > Len(params) THEN s
    ELSE LET r == IF k <= Len(args) THEN eval_expr(s, e, args[k]) ELSE Res(s, value_null)
             s0 == IF k <= Len(args)
                   THEN Ev(r.st, [ev |-> "arg", k |-> k, scope |-> e, depth |-> s.depth])
                   ELSE r.st
             s1 == SetEnvs(s0, env_def(s0.envs, scope, params[k], r.v))
         IN  bind_params(s1, e, scope, params, args, k + 1)

\* NODE_CALL, native function: the argument vector; byref[k] is the location
\* argv[k] shares its items with (NullLoc: argv[k] is a private copy)
eval_args(s, e, args, k, acc) ==
    IF k > Len(args) THEN [st |-> s, argv |-> acc.argv, byref |-> acc.byref]
    ELSE LET a == args[k]
             loc == IF a.kind = "NODE_IDENT" THEN env_get(s.envs, e, a.name) ELSE NullLoc
         IN  IF loc # NullLoc /\ Deref(s.envs, loc).type = "VAL_LIST"
             THEN eval_args(s, e, args, k + 1,
                            [argv |-> Append(acc.argv, Deref(s.envs, loc)),
                             byref |-> Append(acc.byref, loc)])
             ELSE LET r == eval_expr(s, e, a)
                  IN  eval_args(r.st, e, args, k + 1,
                                [argv |-> Append(acc.argv, r.v),
                                 byref |-> Append(acc.byref, NullLoc)])

\* a native call whose arguments are all private copies
write_back_none(heap, argv0, argv1, byref, k) == heap
\* the items a native changed in place show through the variable they belong to
write_back(heap, argv0, argv1, byref, k) ==
    IF k > Len(byref) THEN heap
    ELSE IF byref[k] # NullLoc /\ argv1[k].type = "VAL_LIST"
            /\ Len(argv1[k].list) = Len(argv0[k].list)
    THEN write_back([heap EXCEPT ![byref[k].env].vars[byref[k].idx].val.list = argv1[k].list],
                    argv0, argv1, byref, k + 1)
    ELSE write_back(heap, argv0, argv1, byref, k + 1)

\* run items[k..] in scope e until a flag named by which is pending
exec_body(s, e, nodes, k, which) ==
    IF k > Len(nodes) \/ ~Running(s) THEN s
    ELSE LET s1 == exec_stmt(s, e, nodes[k])
         IN  IF Pending(s1, which) THEN s1 ELSE exec_body(s1, e, nodes, k + 1, which)

\* NODE_WHILE: the while (1) loop, one iteration per unfolding
while_loop(s, e, n) ==
    IF ~Running(s) THEN s
    ELSE IF s.fuel = 0 THEN Stop(s, "fuel")
    ELSE LET c == eval_expr(s, e, n.cond)
         IN  IF ~is_truthy(c.v) THEN c.st
             ELSE LET s1 == Ev(SetEnvs([c.st EXCEPT !.fuel = @ - 1], env_create(c.st.envs, e)),
                               [ev |-> "iter", kind |-> "NODE_WHILE", scope |-> Len(c.st.envs) + 1,
                                parent |-> e, heap |-> env_create(c.st.envs, e),
                                depth |-> s.depth])
                      scope == Len(s1.envs)
                      s2 == exec_body(s1, scope, n.body, 1, "all")
                      s3 == Ev(SetEnvs(s2, env_free(s2.envs, scope)),
                               [ev |-> "iter_end", kind |-> "NODE_WHILE", scope |-> scope,
                                parent |-> e, heap |-> env_free(s2.envs, scope),
                                depth |-> s.depth])
                  IN  IF s3.return_exception.active THEN s3
                      ELSE IF s3.loop_exception.break_active THEN ClearBreak(s3, "NODE_WHILE", scope)
                      ELSE while_loop(ClearContinue(s3, "NODE_WHILE", scope), e, n)

\* a NODE_FOR whose body runs in the scope of the loop variable itself, with
\* no scope of its own per iteration
for_loop_shared(s, scope, n) ==
    IF ~Running(s) THEN s
    ELSE IF s.fuel = 0 THEN Stop(s, "fuel")
    ELSE LET c == eval_expr(s, scope, n.cond)
         IN  IF ~is_truthy(c.v) THEN c.st
             ELSE LET s1 == Ev([c.st EXCEPT !.fuel = @ - 1],
                               [ev |-> "iter", kind |-> "NODE_FOR", scope |-> scope,
                                parent |-> scope, heap |-> c.st.envs, depth |-> s.depth])
                      s2 == exec_body(s1, scope, n.body, 1, "all")
                      s3 == Ev(s2, [ev |-> "iter_end", kind |-> "NODE_FOR", scope |-> scope,
                                    parent |-> scope, heap |-> s2.envs, depth |-> s.depth])
                  IN  IF s3.return_exception.active THEN s3
                      ELSE IF s3.loop_exception.break_active THEN ClearBreak(s3, "NODE_FOR", scope)
                      ELSE for_loop(exec_stmt(ClearContinue(s3, "NODE_FOR", scope), scope, n.incr),
                                    scope, n)

\* NODE_FOR: the while (1) loop that follows the initializer
for_loop(s, scope, n) ==
    IF ~Running(s) THEN s
    ELSE IF s.fuel = 0 THEN Stop(s, "fuel")
    ELSE LET c == eval_expr(s, scope, n.cond)
         IN  IF ~is_truthy(c.v) THEN c.st
             ELSE LET s1 == Ev(SetEnvs([c.st EXCEPT !.fuel = @ - 1], env_create(c.st.envs, scope)),
                               [ev |-> "iter", kind |-> "NODE_FOR", scope |-> Len(c.st.envs) + 1,
                                parent |-> scope, heap |-> env_create(c.st.envs, scope),
                                depth |-> s.depth])
                      inner_scope == Len(s1.envs)
                      s2 == exec_body(s1, inner_scope, n.body, 1, "all")
                      s3 == Ev(SetEnvs(s2, env_free(s2.envs, inner_scope)),
                               [ev |-> "iter_end", kind |-> "NODE_FOR", scope |-> inner_scope,
                                parent |-> scope, heap |-> env_free(s2.envs, inner_scope),
                                depth |-> s.depth])
                  IN  IF s3.return_exception.active THEN s3
                      ELSE IF s3.loop_exception.break_active THEN ClearBreak(s3, "NODE_FOR", inner_scope)
                      ELSE for_loop(exec_stmt(ClearContinue(s3, "NODE_FOR", inner_scope), scope, n.incr),
                                    scope, n)

\* NODE_SWITCH: the comparison of the subject with the value of case k
switch_cmp(s, val, cv, k) ==
    [st |-> Ev(cv.st, [ev |-> "cmp", k |-> k, eq |-> switch_eq(val, cv.v),
                       same |-> is_truthy(eval_binop(s.build, "OP_EQ", val, cv.v)),
                       depth |-> s.depth]),
     v |-> cv.v]

\* a NODE_SWITCH without the break that ends the loop over the cases: the
\* cases after the matching one are compared, and run if they match as well
switch_step_fallthrough(s, e, n, val, k, cv) ==
    IF switch_eq(val, cv.v)
    THEN LET s1 == Ev(SetEnvs(cv.st, env_create(cv.st.envs, e)),
                      [ev |-> "case", k |-> k, depth |-> s.depth])
             scope == Len(s1.envs)
             s2 == exec_body(s1, scope, n.cases[k].body, 1, "all")
             s3 == SetEnvs(s2, env_free(s2.envs, scope))
         IN  [st |-> switch_cases(ClearBreak(s3, "NODE_SWITCH", scope), e, n, val, k + 1).st,
              matched |-> TRUE]
    ELSE switch_cases(cv.st, e, n, val, k + 1)

\* NODE_SWITCH: case k, whose value cv has been compared with the subject
switch_step(s, e, n, val, k, cv) ==
    IF switch_eq(val, cv.v)
    THEN LET s1 == Ev(SetEnvs(cv.st, env_create(cv.st.envs, e)),
                      [ev |-> "case", k |-> k, depth |-> s.depth])
             scope == Len(s1.envs)
             s2 == exec_body(s1, scope, n.cases[k].body, 1, "all")
             s3 == SetEnvs(s2, env_free(s2.envs, scope))
         IN  [st |-> ClearBreak(s3, "NODE_SWITCH", scope), matched |-> TRUE]
    ELSE switch_cases(cv.st, e, n, val, k + 1)

\* NODE_SWITCH: cases k.. in source order; matched tells whether a body ran
switch_cases(s, e, n, val, k) ==
    IF k > Len(n.cases) \/ ~Running(s) THEN [st |-> s, matched |-> FALSE]
    ELSE switch_step(s, e, n, val, k,
                     switch_cmp(s, val, eval_expr(s, e, n.cases[k].value), k))

\* NODE_SWITCH: the default block, run if the loop over the cases (c) has
\* matched nothing
switch_default(s, e, n, c) ==
    IF ~c.matched /\ Len(n.default_case) > 0
    THEN LET s1 == Ev(SetEnvs(c.st, env_create(c.st.envs, e)),
                      [ev |-> "case", k |-> 0, depth |-> s.depth])
             scope == Len(s1.envs)
             s2 == exec_body(s1, scope, n.default_case, 1, "all")
             s3 == SetEnvs(s2, env_free(s2.envs, scope))
         IN  Ev(ClearBreak(s3, "NODE_SWITCH", scope),
                [ev |-> "switch_exit", depth |-> s.depth])
    ELSE Ev(c.st, [ev |-> "switch_exit", depth |-> s.depth])

\* NODE_SWITCH: the statement, whose subject has been evaluated to val
switch_subject(s, e, n, val) ==
    switch_default(s, e, n,
                   switch_cases(Ev(val.st, [ev |-> "subject", depth |-> s.depth]),
                                e, n, val.v, 1))

INT_MAX == 2147483647

BuiltinTypeName(v) ==
    CASE v.type = "VAL_INT" ->
            (IF v.i > INT_MAX \/ v.i < -INT_MAX - 1 THEN "long" ELSE "int")
      [] v.type = "VAL_FLOAT" -> "float"
      [] v.type = "VAL_STRING" -> "string"
      [] v.type = "VAL_CHAR" -> "char"
      [] v.type = "VAL_BOOL" -> "boolean"
      [] v.type = "VAL_LIST" -> "list"
      [] v.type = "VAL_NATIVE" -> "native_function"
      [] v.type = "VAL_NULL" -> "null"
      [] OTHER -> "unknown"

\* atoll / atof on the digit strings "0".."99" (other text converts to 0)
Atoll(str) ==
    LET m == {k \in 0..99 : ToString(k) = str}
    IN  IF m = {} THEN 0 ELSE CHOOSE k \in m : TRUE

\* NODE_CALL, step 1: the function found by env_get_func is run
call_user(s, e, n, fn) ==
    LET s1 == SetEnvs(Ev([s EXCEPT !.fuel = @ - 1],
                         [ev |-> "args_begin", name |-> n.name, scope |-> e,
                          depth |-> s.depth]),
                      env_create(s.envs, e))
        scope == Len(s1.envs)
        s2 == bind_params(s1, e, scope, fn.params, n.args, 1)
        home == FuncHome(s.envs, e, n.name)
        s3 == Ev(s2, [ev |-> "call", name |-> n.name, scope |-> scope,
                      parent |-> s2.envs[scope].parent, home |-> home,
                      nargs |-> Len(n.args), fn |-> fn, from |-> e, heap |-> s.envs,
                      flags |-> Flags(s2),
                      free |-> {v \in Names :
                                  env_get(s2.envs, scope, v) # env_get(s2.envs, home, v)
                                  /\ \A k \in 1..Len(fn.params) : fn.params[k] # v}])
        s4 == exec_body([s3 EXCEPT !.depth = @ + 1], scope, fn.body, 1, "ret")
        s5 == [s4 EXCEPT !.depth = s.depth]
        ret == IF s5.return_exception.active
               THEN value_copy(s5.return_exception.value) ELSE value_null
        s6 == IF s5.return_exception.active /\ Running(s5)
              THEN [s5 EXCEPT !.return_exception = [active |-> FALSE, value |-> value_null]]
              ELSE s5
        s7 == Ev(SetEnvs(s6, env_free(s6.envs, scope)),
                 [ev |-> "call_exit", name |-> n.name, depth |-> s.depth + 1, v |-> ret,
                  active |-> s6.return_exception.active, scope |-> scope,
                  before |-> Shape(s.envs), after |-> Shape(env_free(s6.envs, scope)),
                  flags |-> Flags(s5)])
    IN  Res(s7, ret)

\* NODE_CALL, step 2: the native function held by a variable is run
call_native(s, e, n, fn) ==
    LET a == eval_args(s, e, n.args, 1, [argv |-> <<>>, byref |-> <<>>])
        r == native_call(Ev(a.st, [ev |-> "native", name |-> n.name, fn |-> fn,
                                   argv |-> a.argv, depth |-> s.depth]),
                         fn, a.argv)
        heap == write_back(r.st.envs, a.argv, r.argv, a.byref, 1)
    IN  Res(Ev(SetEnvs(r.st, heap),
               [ev |-> "native_exit", fn |-> fn, byref |-> a.byref, argv0 |-> a.argv,
                argv1 |-> r.argv, before |-> a.st.envs, after |-> heap,
                depth |-> s.depth]),
            r.v)

eval_call(s, e, n) ==
    LET one == IF Len(n.args) = 1 THEN eval_expr(s, e, n.args[1]) ELSE Res(s, value_null)
    IN
    IF n.name = "len" /\ Len(n.args) = 1
    THEN Res(one.st, value_int(CASE one.v.type = "VAL_STRING" -> Len(one.v.s)
                                 [] one.v.type = "VAL_LIST" -> Len(one.v.list)
                                 [] OTHER -> 0))
    ELSE IF n.name = "append"
    THEN IF Len(n.args) # 2 THEN Res(s, value_null)
         ELSE LET lp == get_mutable_value(s, e, n.args[1])
                  it == eval_expr(lp.st, e, n.args[2])
              IN  IF lp.ref # NullRef /\ RefGet(it.st.envs, lp.ref).type = "VAL_LIST"
                  THEN Res(NoteStore(it.st, lp.ref, RefSet(it.st.envs, lp.ref,
                               value_list_append(RefGet(it.st.envs, lp.ref), it.v))),
                           value_null)
                  ELSE Res(Report(it.st, "ERR_ARGUMENT"), value_null)
    ELSE IF n.name = "type" /\ Len(n.args) = 1
    THEN Res(one.st, value_string(BuiltinTypeName(one.v)))
    ELSE IF n.name = "int" /\ Len(n.args) = 1
    THEN Res(one.st, value_int(CASE one.v.type = "VAL_STRING" -> Atoll(one.v.s)
                                 [] one.v.type = "VAL_FLOAT" -> Trunc(one.v)
                                 [] one.v.type = "VAL_INT" -> one.v.i
                                 [] one.v.type = "VAL_BOOL" -> one.v.b
                                 [] one.v.type = "VAL_CHAR" -> CharCode(one.v.c)
                                 [] OTHER -> 0))
    ELSE IF n.name = "float" /\ Len(n.args) = 1
    THEN Res(one.st, CASE one.v.type = "VAL_STRING" -> value_float(Atoll(one.v.s), 1)
                       [] one.v.type = "VAL_INT" -> value_float(one.v.i, 1)
                       [] one.v.type = "VAL_FLOAT" -> one.v
                       [] one.v.type = "VAL_BOOL" -> value_float(one.v.b, 1)
                       [] OTHER -> value_float(0, 1))
    ELSE LET fn == env_get_func(s.envs, e, n.name)
             nv == env_get(s.envs, e, n.name)
         IN  IF fn # NullNode
             THEN IF s.fuel = 0 THEN Res(Stop(s, "fuel"), value_null)
                  ELSE call_user(s, e, n, fn)
             ELSE IF nv # NullLoc /\ Deref(s.envs, nv).type = "VAL_NATIVE"
             THEN call_native(s, e, n, Deref(s.envs, nv).native)
             ELSE Res(s, value_null)

eval_expr_def(s, e, n) ==
    IF n = NullNode \/ ~Running(s) THEN Res(s, value_null)
    ELSE CASE n.kind = "NODE_NUMBER" -> Res(s, value_int(n.value))
      [] n.kind = "NODE_FLOAT" -> Res(s, value_float(n.num, n.den))
      [] n.kind = "NODE_STRING" -> Res(s, value_string(n.text))
      [] n.kind = "NODE_CHAR" -> Res(s, value_char(n.value))
      [] n.kind = "NODE_BOOL" -> Res(s, value_bool(n.value))
      [] n.kind = "NODE_LIST" ->
            LET r == eval_items(s, e, n.items, 1, <<>>) IN Res(r.st, value_list(r.vs))
      [] n.kind = "NODE_IDENT" ->
            LET loc == env_get(s.envs, e, n.name)
            IN  Res(s, IF loc # NullLoc THEN value_copy(Stored(s.envs, loc)) ELSE value_null)
      [] n.kind = "NODE_BINOP" ->
            LET l == eval_expr(s, e, n.left)
            IN  IF n.op = "OP_AND"
                THEN IF ~is_truthy(l.v) THEN l ELSE eval_expr(l.st, e, n.right)
                ELSE IF n.op = "OP_OR"
                THEN IF is_truthy(l.v) THEN l ELSE eval_expr(l.st, e, n.right)
                ELSE LET r == eval_expr(l.st, e, n.right)
                         res == eval_binop(s.build, n.op, l.v, r.v)
                     IN  IF ~Running(r.st) THEN Res(r.st, value_null)
                         ELSE IF res = Trap THEN Res(Stop(r.st, "crashed"), value_null)
                         ELSE Res(r.st, res)
      [] n.kind = "NODE_NOT" ->
            LET v == eval_expr(s, e, n.expr) IN Res(v.st, value_bool(~is_truthy(v.v)))
      [] n.kind = "NODE_INDEX" -> index_of(e, n, eval_expr(s, e, n.target))
      [] n.kind \in {"NODE_INC", "NODE_DEC"} ->
            inc_noted(s, n, env_get(s.envs, e, n.name),
                      inc_dec(s, env_get(s.envs, e, n.name),
                              IF n.kind = "NODE_INC" THEN 1 ELSE -1))
      [] n.kind = "NODE_CALL" -> eval_call(s, e, n)
      [] n.kind = "NODE_INPUT" ->
            IF s.stdin # <<>>
            THEN Res([s EXCEPT !.stdin = Tail(@)], value_string(Head(s.stdin)))
            ELSE Res(s, value_string(""))
      [] OTHER -> Res(s, value_null)

\* the return of exec_stmt
stmt_end(s0, n, r) ==
    Ev(r, [ev |-> "stmt_end", kind |-> n.kind, depth |-> s0.depth,
           before |-> Shape(s0.envs), after |-> Shape(r.envs), flags |-> Flags(r)])

exec_stmt_def(s0, e, n) ==
    IF n = NullNode \/ ~Running(s0) THEN s0
    ELSE LET s == Ev(s0, [ev |-> "stmt", kind |-> n.kind, depth |-> s0.depth,
                          flags |-> Flags(s0)]) IN
     stmt_end(s0, n,
      CASE n.kind = "NODE_LET" ->
            LET v == eval_expr(s, e, n.expr)
            IN  SetEnvs(v.st, env_def(v.st.envs, e, n.name, v.v))
      [] n.kind = "NODE_ASSIGN" ->
            LET v == eval_expr(s, e, n.expr)
                a == env_assign(v.st.envs, e, n.name, v.v)
                s1 == IF a.err THEN Report(SetEnvs(v.st, a.heap), "ERR_NAME")
                      ELSE SetEnvs(v.st, a.heap)
            IN  Ev(s1, [ev |-> "assign", name |-> n.name, depth |-> s.depth,
                        bound |-> env_get(v.st.envs, e, n.name) # NullLoc,
                        same |-> s1.envs = v.st.envs,
                        reported |-> SubSeq(s1.errs, Len(v.st.errs) + 1, Len(s1.errs)),
                        signal |-> Pending(s1, "all") /\ ~Pending(v.st, "all")])
      [] n.kind = "NODE_ASSIGN_INDEX" ->
            LET val == eval_expr(s, e, n.value)
                t == get_mutable_value(val.st, e, n.list)
            IN  IF t.ref = NullRef \/ RefGet(t.st.envs, t.ref).type # "VAL_LIST"
                THEN Report(t.st, "ERR_TYPE")
                ELSE assign_index(t.ref, eval_expr(t.st, e, n.index), val.v)
      [] n.kind = "NODE_PRINT" ->
            LET r == eval_items(s, e, n.args, 1, <<>>)
                RECURSIVE line(_)
                line(k) == IF k > Len(r.vs) THEN ""
                           ELSE value_to_string(r.vs[k]) \o " " \o line(k + 1)
            IN  IF Running(r.st) THEN [r.st EXCEPT !.out = Append(@, line(1))] ELSE r.st
      [] n.kind = "NODE_IF" ->
            LET v == eval_expr(s, e, n.cond)
                block == IF is_truthy(v.v) THEN n.then_block ELSE n.else_block
                s1 == SetEnvs(v.st, env_create(v.st.envs, e))
                scope == Len(s1.envs)
                s2 == exec_body(s1, scope, block, 1, "all")
            IN  SetEnvs(s2, env_free(s2.envs, scope))
      [] n.kind = "NODE_WHILE" -> while_loop(s, e, n)
      [] n.kind = "NODE_FOR" ->
            LET s1 == SetEnvs(s, env_create(s.envs, e))
                scope == Len(s1.envs)
                s2 == exec_stmt(s1, scope, n.init)
                s3 == for_loop(s2, scope, n)
            IN  SetEnvs(s3, env_free(s3.envs, scope))
      [] n.kind = "NODE_SWITCH" ->
            switch_subject(s, e, n,
                           eval_expr(Ev(s, [ev |-> "switch", depth |-> s.depth,
                                            ncases |-> Len(n.cases),
                                            ndefault |-> Len(n.default_case)]),
                                     e, n.expr))
      [] n.kind = "NODE_BLOCK" ->
            LET s1 == SetEnvs(s, env_create(s.envs, e))
                scope == Len(s1.envs)
                s2 == exec_body(s1, scope, n.items, 1, "all")
            IN  SetEnvs(s2, env_free(s2.envs, scope))
      [] n.kind = "NODE_GROUP" -> exec_body(s, e, n.items, 1, "all")
      [] n.kind = "NODE_FUNC_DEF" -> SetEnvs(s, env_def_func(s.envs, e, n.name, n))
      [] n.kind = "NODE_RETURN" ->
            LET v == eval_expr(s, e, n.expr)
            IN  IF Running(v.st)
                THEN Ev([v.st EXCEPT !.return_exception = [active |-> TRUE, value |-> v.v]],
                        [ev |-> "return", depth |-> s.depth, v |-> v.v])
                ELSE v.st
      [] n.kind = "NODE_BREAK" ->
            Ev([s EXCEPT !.loop_exception.break_active = TRUE],
               [ev |-> "break", scope |-> e, depth |-> s.depth])
      [] n.kind = "NODE_CONTINUE" ->
            Ev([s EXCEPT !.loop_exception.continue_active = TRUE],
               [ev |-> "continue", scope |-> e, depth |-> s.depth])
      [] OTHER -> eval_expr(s, e, n).st)

interp(fn, s, e, n) ==
    IF fn = "eval_expr" THEN eval_expr_def(s, e, n) ELSE exec_stmt_def(s, e, n)

(***************************************************************************)
(* Lexer (lexer.c).  The source is a string; L->pos is a 0-based offset.   *)
(***************************************************************************)
CharsOf(str) == {SubSeq(str, k, k) : k \in 1..Len(str)}
DigitChars == CharsOf("0123456789")
AlphaChars == CharsOf("abcdefghijklmnopqrstuvwxyzABCDEFGHIJKLMNOPQRSTUVWXYZ")
isdigit(c) == c \in DigitChars
isalpha(c) == c \in AlphaChars
isalnum(c) == isdigit(c) \/ isalpha(c)

\* lx_at / lx_peek: the character at offset pos, "" for the terminating 0
lx_at(src, pos) == IF pos < Len(src) THEN SubSeq(src, pos + 1, pos + 1) ELSE ""
Slice(src, from, to) == SubSeq(src, from + 1, to)      \* src[from .. to-1]

RECURSIVE SkipLine(_, _)
SkipLine(src, pos) ==
    IF lx_at(src, pos) \in {"\n", ""} THEN pos ELSE SkipLine(src, pos + 1)

RECURSIVE lx_skip_ws_but_keep_nl(_, _)
lx_skip_ws_but_keep_nl(src, pos) ==
    LET c == lx_at(src, pos)
    IN  IF c = "#" \/ (c = "/" /\ lx_at(src, pos + 1) = "/")
        THEN IF SkipLine(src, pos) = pos THEN pos
             ELSE lx_skip_ws_but_keep_nl(src, SkipLine(src, pos))
        ELSE IF c \in {" ", "\t", "\r", "\f"}
        THEN lx_skip_ws_but_keep_nl(src, pos + 1)
        ELSE pos

make_token(ttype, lexeme) ==
    [type |-> ttype, lexeme |-> lexeme, number |-> 0, fnum |-> 0, fden |-> 1]

RECURSIVE ScanWhile(_, _, _)
\* the first offset >= pos whose character is not in set
ScanWhile(src, pos, set) ==
    IF lx_at(src, pos) \in set THEN ScanWhile(src, pos + 1, set) ELSE pos

RECURSIVE ScanString(_, _)
\* the offset of the closing quote (or of the end of the source)
ScanString(src, pos) ==
    IF lx_at(src, pos) \in {"", "\""} THEN pos
    ELSE IF lx_at(src, pos) = "\\" /\ lx_at(src, pos + 1) # ""
    THEN ScanString(src, pos + 2)
    ELSE ScanString(src, pos + 1)

RECURSIVE strtoll(_)
strtoll(str) ==
    IF str = "" THEN 0
    ELSE 10 * strtoll(SubSeq(str, 1, Len(str) - 1))
         + (CHOOSE d \in 0..9 : ToString(d) = SubSeq(str, Len(str), Len(str)))

RECURSIVE Pow10(_)
Pow10(k) == IF k = 0 THEN 1 ELSE 10 * Pow10(k - 1)

Keyword(buf) ==
    CASE buf = "let" -> "T_LET"
      [] buf = "if" -> "T_IF"
      [] buf = "else" -> "T_ELSE"
      [] buf = "func" -> "T_FUNC"
      [] buf = "return" -> "T_RETURN"
      [] buf = "print" -> "T_PRINT"
      [] buf = "input" -> "T_INPUT"
      [] buf = "true" -> "T_TRUE"
      [] buf = "false" -> "T_FALSE"
      [] buf = "while" -> "T_WHILE"
      [] buf = "for" -> "T_FOR"
      [] buf = "in" -> "T_IN"
      [] buf = "break" -> "T_BREAK"
      [] buf = "continue" -> "T_CONTINUE"
      [] buf = "switch" -> "T_SWITCH"
      [] buf = "case" -> "T_CASE"
      [] buf = "default" -> "T_DEFAULT"
      [] buf = "and" -> "T_AND"
      [] buf = "or" -> "T_OR"
      [] buf = "not" -> "T_NOT"
      [] buf \in {"balls", "big_balls", "shared_balls"} -> "T_LET"
      [] buf = "loop_your_balls" -> "T_FOR"
      [] buf = "spin_balls" -> "T_WHILE"
      [] buf = "if_balls" -> "T_IF"
      [] buf = "else_balls" -> "T_ELSE"
      [] buf = "switch_balls" -> "T_SWITCH"
      [] buf = "drop_balls" -> "T_BREAK"
      [] buf = "jiggle_balls" -> "T_CONTINUE"
      [] buf = "grab_balls" -> "T_FUNC"
      [] OTHER -> "T_IDENT"

SingleOp(c) ==
    CASE c = "=" -> "T_EQ"
      [] c = "+" -> "T_PLUS"
      [] c = "-" -> "T_MINUS"
      [] c = "*" -> "T_MUL"
      [] c = "/" -> "T_DIV"
      [] c = "%" -> "T_MOD"
      [] c = "<" -> "T_LT"
      [] c = ">" -> "T_GT"
      [] c = "(" -> "T_LPAREN"
      [] c = ")" -> "T_RPAREN"
      [] c = "{" -> "T_LBRACE"
      [] c = "}" -> "T_RBRACE"
      [] c = "[" -> "T_LBRACKET"
      [] c = "]" -> "T_RBRACKET"
      [] c = "," -> "T_COMMA"
      [] c = ":" -> "T_COLON"
      [] c = ";" -> "T_SEMICOLON"
      [] c = "!" -> "T_NOT"
      [] OTHER -> "T_INVALID"

DoubleOp(c, d) ==
    CASE c = "=" /\ d = "=" -> "T_EQEQ"
      [] c = "!" /\ d = "=" -> "T_NEQ"
      [] c = "<" /\ d = "=" -> "T_LTE"
      [] c = ">" /\ d = "=" -> "T_GTE"
      [] c = "+" /\ d = "+" -> "T_INC"
      [] c = "-" /\ d = "-" -> "T_DEC"
      [] c = "&" /\ d = "&" -> "T_AND"
      [] c = "|" /\ d = "|" -> "T_OR"
      [] OTHER -> "T_INVALID"

\* lexer_next after the white space: the token that starts at offset pos with
\* the characters c and d, and the lexer position after it
scan_token(src, pos, c, d) ==
    IF c = "" THEN [tok |-> make_token("T_EOF", ""), pos |-> pos]
    ELSE IF c = "\n" THEN [tok |-> make_token("T_NEWLINE", "\\n"), pos |-> pos + 1]
    ELSE IF c = "\""
    THEN LET q == ScanString(src, pos + 1)
         IN  [tok |-> make_token("T_STRING", Slice(src, pos + 1, IF q > Len(src) THEN Len(src) ELSE q)),
              pos |-> IF q < Len(src) THEN q + 1 ELSE Len(src)]
    ELSE IF c = "'"
    THEN LET esc == lx_at(src, pos + 1) = "\\"
             at == IF esc THEN pos + 2 ELSE pos + 1
             raw == lx_at(src, at)
             char_val == IF ~esc THEN raw
                         ELSE CASE raw = "n" -> "\n"
                                [] raw = "t" -> "\t"
                                [] raw = "0" -> NulChar
                                [] OTHER -> raw
             after == IF at < Len(src) THEN at + 1 ELSE Len(src)
         IN  [tok |-> make_token("T_CHAR", IF char_val = "" THEN NulChar ELSE char_val),
              pos |-> IF lx_at(src, after) = "'" THEN after + 1 ELSE after]
    ELSE IF DoubleOp(c, d) # "T_INVALID"
    THEN [tok |-> make_token(DoubleOp(c, d), c \o d), pos |-> pos + 2]
    ELSE IF SingleOp(c) # "T_INVALID"
    THEN [tok |-> make_token(SingleOp(c), c), pos |-> pos + 1]
    ELSE IF isdigit(c)
    THEN LET q == ScanWhile(src, pos, DigitChars)
             is_float == lx_at(src, q) = "." /\ isdigit(lx_at(src, q + 1))
             r == IF is_float THEN ScanWhile(src, q + 1, DigitChars) ELSE q
         IN  IF is_float
             THEN [tok |-> [make_token("T_FLOAT", Slice(src, pos, r)) EXCEPT
                              !.fnum = strtoll(Slice(src, pos, q)) * Pow10(r - q - 1)
                                       + strtoll(Slice(src, q + 1, r)),
                              !.fden = Pow10(r - q - 1)],
                   pos |-> r]
             ELSE [tok |-> [make_token("T_NUMBER", Slice(src, pos, q)) EXCEPT
                              !.number = strtoll(Slice(src, pos, q))],
                   pos |-> q]
    ELSE IF isalpha(c) \/ c = "_"
    THEN LET q == ScanWhile(src, pos, DigitChars \cup AlphaChars \cup {"_"})
             buf == Slice(src, pos, q)
         IN  [tok |-> make_token(Keyword(buf), buf), pos |-> q]
    ELSE [tok |-> make_token("T_IDENT", c), pos |-> pos + 1]

token_at(src, pos) == scan_token(src, pos, lx_at(src, pos), lx_at(src, pos + 1))

\* the next token and the lexer position after it
lexer_next(src, pos0) == token_at(src, lx_skip_ws_but_keep_nl(src, pos0))

(***************************************************************************)
(* AST constructors (ast.h / ast.cpp)                                      *)
(***************************************************************************)
ast_number(v) == [kind |-> "NODE_NUMBER", value |-> v]
ast_float(num, den) == [kind |-> "NODE_FLOAT", num |-> num, den |-> den]
ast_string(str) == [kind |-> "NODE_STRING", text |-> str]
ast_char(c) == [kind |-> "NODE_CHAR", value |-> c]
ast_bool(v) == [kind |-> "NODE_BOOL", value |-> v]
ast_list(l) == [kind |-> "NODE_LIST", items |-> l]
ast_ident(name) == [kind |-> "NODE_IDENT", name |-> name]
ast_inc(name) == [kind |-> "NODE_INC", name |-> name]
ast_dec(name) == [kind |-> "NODE_DEC", name |-> name]
ast_binop(op, l, r) == [kind |-> "NODE_BINOP", op |-> op, left |-> l, right |-> r]
ast_not(expr) == [kind |-> "NODE_NOT", expr |-> expr]
ast_let(name, expr) == [kind |-> "NODE_LET", name |-> name, expr |-> expr]
ast_assign(name, expr) == [kind |-> "NODE_ASSIGN", name |-> name, expr |-> expr]
ast_assign_index(list, index, value) ==
    [kind |-> "NODE_ASSIGN_INDEX", list |-> list, index |-> index, value |-> value]
ast_index(target, index) == [kind |-> "NODE_INDEX", target |-> target, index |-> index]
ast_print(args) == [kind |-> "NODE_PRINT", args |-> args]
ast_input(prompt) == [kind |-> "NODE_INPUT", prompt |-> prompt]
ast_if(cond, then_block, else_block) ==
    [kind |-> "NODE_IF", cond |-> cond, then_block |-> then_block, else_block |-> else_block]
ast_while(cond, body) == [kind |-> "NODE_WHILE", cond |-> cond, body |-> body]
ast_for(init, cond, incr, body) ==
    [kind |-> "NODE_FOR", init |-> init, cond |-> cond, incr |-> incr, body |-> body]
ast_break == [kind |-> "NODE_BREAK"]
ast_continue == [kind |-> "NODE_CONTINUE"]
ast_switch(expr, cases, default_case) ==
    [kind |-> "NODE_SWITCH", expr |-> expr, cases |-> cases, default_case |-> default_case]
ast_case(value, body) == [kind |-> "NODE_CASE", value |-> value, body |-> body]
ast_block(l) == [kind |-> "NODE_BLOCK", items |-> l]
ast_group(l) == [kind |-> "NODE_GROUP", items |-> l]
ast_call(name, args) == [kind |-> "NODE_CALL", name |-> name, args |-> args]
ast_funcdef(name, params, body) ==
    [kind |-> "NODE_FUNC_DEF", name |-> name, params |-> params, body |-> body]
ast_return(expr) == [kind |-> "NODE_RETURN", expr |-> expr]

nodelist_push(l, n) == Append(l, n)
PushIf(l, n) == IF n # NullNode THEN nodelist_push(l, n) ELSE l

(***************************************************************************)
(* Parser primitives (parser.cpp).  p is the struct Parser together with   *)
(* the diagnostics reported so far (p.errs) and p.hung, which is set when  *)
(* a loop of the parser repeats without changing the parser's state.       *)
(***************************************************************************)
\* expression and statement are reached again from inside the functions they
\* call, and every function of the parser calls advance; parse ties them
\* together: it runs the body (..._def) of the function named
RECURSIVE parse(_, _)
advance(p) == parse("advance", p)
expression(p) == parse("expression", p)
unary(p) == parse("unary", p)
statement(p) == parse("statement", p)
program_item(p) == parse("program_item", p)

SetToken(p, t) == [p EXCEPT !.cur = t.tok, !.lx = t.pos, !.has_cur = TRUE]

advance_def(p) ==
    IF p.had_error THEN p
    ELSE SetToken(p, lexer_next(p.src, p.lx))

check(p, type) == ~p.had_error /\ p.has_cur /\ p.cur.type = type

\* match(p, type) returns check(p, type); this is the parser it leaves
match(p, type) == IF check(p, type) THEN advance(p) ELSE p

\* error_report_with_context(ERR_SYNTAX, ...); p->had_error = 1
SyntaxError(p, msg) ==
    IF p.hung THEN p ELSE [p EXCEPT !.errs = Append(@, msg), !.had_error = TRUE]

consume(p, type, err) ==
    IF p.had_error THEN p
    ELSE IF check(p, type) THEN advance(p)
    ELSE SyntaxError(p, err)

parser_init(source) ==
    advance([src |-> source, lx |-> 0, cur |-> make_token("T_EOF", ""),
             has_cur |-> FALSE, had_error |-> FALSE, inside_function |-> FALSE,
             errs |-> <<>>, hung |-> FALSE])

PN(p, n) == [p |-> p, n |-> n]

\* F applied to the parser and the node that the call e left; the call e is
\* made first, as in the source, whichever node it leaves
On(e, F(_, _)) == IF e.n = NullNode THEN F(e.p, NullNode) ELSE F(e.p, e.n)

(***************************************************************************)
(* Expressions (parser.cpp)                                                *)
(***************************************************************************)
RECURSIVE postfix_loop(_, _), expr_list(_, _), mul_loop(_, _),
          add_loop(_, _), cmp_loop(_, _), eq_loop(_, _), and_loop(_, _),
          or_loop(_, _), let_names(_, _), let_values(_, _), param_list(_, _),
          case_body(_, _), switch_body(_, _, _), block(_, _)

\* do { e = expression(p); if (e) push } while (match(p, T_COMMA))
expr_list(p, acc) ==
    LET a == expression(p)
        acc1 == PushIf(acc, a.n)
    IN  IF check(a.p, "T_COMMA") THEN expr_list(advance(a.p), acc1)
        ELSE [p |-> a.p, l |-> acc1]

primary(p) ==
    CASE p.had_error -> PN(p, NullNode)
      [] check(p, "T_NUMBER") -> PN(advance(p), ast_number(p.cur.number))
      [] check(p, "T_FLOAT") -> PN(advance(p), ast_float(p.cur.fnum, p.cur.fden))
      [] check(p, "T_STRING") -> PN(advance(p), ast_string(p.cur.lexeme))
      [] check(p, "T_CHAR") -> PN(advance(p), ast_char(p.cur.lexeme))
      [] check(p, "T_TRUE") -> PN(match(p, "T_TRUE"), ast_bool(TRUE))
      [] check(p, "T_FALSE") -> PN(match(p, "T_FALSE"), ast_bool(FALSE))
      [] check(p, "T_IDENT") -> PN(advance(p), ast_ident(p.cur.lexeme))
      [] check(p, "T_LPAREN") ->
            LET e == expression(match(p, "T_LPAREN"))
            IN  PN(consume(e.p, "T_RPAREN", "Expected ')' after expression"), e.n)
      [] check(p, "T_LBRACKET") ->
            LET p1 == match(p, "T_LBRACKET")
                l == IF ~check(p1, "T_RBRACKET") THEN expr_list(p1, <<>>)
                     ELSE [p |-> p1, l |-> <<>>]
            IN  PN(consume(l.p, "T_RBRACKET", "Expected ']' at end of list"), ast_list(l.l))
      [] check(p, "T_INPUT") ->
            LET p1 == consume(match(p, "T_INPUT"), "T_LPAREN", "Expected '(' after input")
            IN  IF ~check(p1, "T_RPAREN")
                THEN IF check(p1, "T_STRING")
                     THEN PN(consume(advance(p1), "T_RPAREN", "Expected ')' after input"),
                             ast_input(p1.cur.lexeme))
                     ELSE PN(SyntaxError(p1, "Expected string prompt for input"), NullNode)
                ELSE PN(consume(p1, "T_RPAREN", "Expected ')' after input"), ast_input(""))
      [] OTHER -> PN(SyntaxError(p, "Unexpected token"), NullNode)

\* the while (1) loop of call_or_index
postfix_loop(p, expr) ==
    CASE p.had_error -> PN(p, expr)
      [] check(p, "T_LPAREN") ->
            LET p1 == match(p, "T_LPAREN")
                a == IF ~check(p1, "T_RPAREN") THEN expr_list(p1, <<>>)
                     ELSE [p |-> p1, l |-> <<>>]
                p2 == consume(a.p, "T_RPAREN", "Expected ')' after arguments")
            IN  IF expr # NullNode /\ expr.kind = "NODE_IDENT"
                THEN postfix_loop(p2, ast_call(expr.name, a.l))
                ELSE PN(SyntaxError(p2, "Function call requires a function name"), NullNode)
      [] check(p, "T_LBRACKET") ->
            LET ix == expression(match(p, "T_LBRACKET"))
                p2 == consume(ix.p, "T_RBRACKET", "Expected ']' after index")
            IN  postfix_loop(p2, IF expr # NullNode /\ ix.n # NullNode
                                 THEN ast_index(expr, ix.n) ELSE expr)
      [] check(p, "T_INC") ->
            IF expr # NullNode /\ expr.kind = "NODE_IDENT"
            THEN postfix_loop(match(p, "T_INC"), ast_inc(expr.name))
            ELSE PN(SyntaxError(match(p, "T_INC"), "'++' can only be applied to variables"),
                    NullNode)
      [] check(p, "T_DEC") ->
            IF expr # NullNode /\ expr.kind = "NODE_IDENT"
            THEN postfix_loop(match(p, "T_DEC"), ast_dec(expr.name))
            ELSE PN(SyntaxError(match(p, "T_DEC"), "'--' can only be applied to variables"),
                    NullNode)
      [] OTHER -> PN(p, expr)

call_or_index(p) == On(primary(p), postfix_loop)

unary_def(p) ==
    CASE check(p, "T_NOT") ->
            LET operand == unary(match(p, "T_NOT")) IN PN(operand.p, ast_not(operand.n))
      [] check(p, "T_MINUS") ->
            LET right == unary(match(p, "T_MINUS"))
            IN  IF right.n # NullNode
                THEN PN(right.p, ast_binop("OP_SUB", ast_number(0), right.n))
                ELSE IF check(right.p, "T_PLUS") THEN unary(match(right.p, "T_PLUS"))
                ELSE call_or_index(right.p)
      [] check(p, "T_PLUS") -> unary(match(p, "T_PLUS"))
      [] OTHER -> call_or_index(p)

BinOpOf(type) ==
    CASE type = "T_MUL" -> "OP_MUL"
      [] type = "T_DIV" -> "OP_DIV"
      [] type = "T_MOD" -> "OP_MOD"
      [] type = "T_PLUS" -> "OP_ADD"
      [] type = "T_MINUS" -> "OP_SUB"
      [] type = "T_LT" -> "OP_LT"
      [] type = "T_GT" -> "OP_GT"
      [] type = "T_LTE" -> "OP_LTE"
      [] type = "T_GTE" -> "OP_GTE"
      [] type = "T_EQEQ" -> "OP_EQ"
      [] type = "T_NEQ" -> "OP_NEQ"
      [] type = "T_AND" -> "OP_AND"
      [] type = "T_OR" -> "OP_OR"

Join(op, expr, right) ==
    IF expr # NullNode /\ right # NullNode THEN ast_binop(op, expr, right) ELSE expr

\* the rest of a binary loop's iteration once the right operand is parsed
JoinOn(op, expr, right, loop(_, _)) == loop(right.p, Join(op, expr, right.n))

mul_loop(p, expr) ==
    IF check(p, "T_MUL") \/ check(p, "T_DIV") \/ check(p, "T_MOD")
    THEN JoinOn(BinOpOf(p.cur.type), expr, unary(advance(p)), mul_loop)
    ELSE PN(p, expr)
multiplication(p) == On(unary(p), mul_loop)

add_loop(p, expr) ==
    IF check(p, "T_PLUS") \/ check(p, "T_MINUS")
    THEN JoinOn(BinOpOf(p.cur.type), expr, multiplication(advance(p)), add_loop)
    ELSE PN(p, expr)
addition(p) == On(multiplication(p), add_loop)

cmp_loop(p, expr) ==
    IF check(p, "T_LT") \/ check(p, "T_GT") \/ check(p, "T_LTE") \/ check(p, "T_GTE")
    THEN JoinOn(BinOpOf(p.cur.type), expr, addition(advance(p)), cmp_loop)
    ELSE PN(p, expr)
comparison(p) == On(addition(p), cmp_loop)

eq_loop(p, expr) ==
    IF check(p, "T_EQEQ") \/ check(p, "T_NEQ")
    THEN JoinOn(BinOpOf(p.cur.type), expr, comparison(advance(p)), eq_loop)
    ELSE PN(p, expr)
equality(p) == On(comparison(p), eq_loop)

and_loop(p, expr) ==
    IF check(p, "T_AND")
    THEN JoinOn("OP_AND", expr, equality(match(p, "T_AND")), and_loop)
    ELSE PN(p, expr)
logical_and(p) == On(equality(p), and_loop)

or_loop(p, expr) ==
    IF check(p, "T_OR")
    THEN JoinOn("OP_OR", expr, logical_and(match(p, "T_OR")), or_loop)
    ELSE PN(p, expr)
logical_or(p) == On(logical_and(p), or_loop)

expression_def(p) == IF p.had_error THEN PN(p, NullNode) ELSE logical_or(p)

(***************************************************************************)
(* Statements (parser.cpp)                                                 *)
(***************************************************************************)
\* let: do { name } while (match(p, T_COMMA)); ok is FALSE after the error
let_names(p, acc) ==
    IF ~check(p, "T_IDENT")
    THEN [p |-> SyntaxError(p, "Expected variable name after 'let' or ','"),
          l |-> acc, ok |-> FALSE]
    ELSE LET p1 == advance(p)
             acc1 == Append(acc, p.cur.lexeme)
         IN  IF check(p1, "T_COMMA") THEN let_names(match(p1, "T_COMMA"), acc1)
             ELSE [p |-> p1, l |-> acc1, ok |-> TRUE]

\* let: do { values[val_count++] = expression(p) } while (match(p, T_COMMA))
let_values(p, acc) ==
    LET v == expression(p)
        acc1 == Append(acc, v.n)
    IN  IF check(v.p, "T_COMMA") THEN let_values(match(v.p, "T_COMMA"), acc1)
        ELSE [p |-> v.p, l |-> acc1]

\* function_def: do { param } while (match(p, T_COMMA))
param_list(p, acc) ==
    IF ~check(p, "T_IDENT")
    THEN [p |-> SyntaxError(p, "Expected parameter name"), l |-> acc, ok |-> FALSE]
    ELSE LET p1 == advance(p)
             acc1 == Append(acc, p.cur.lexeme)
         IN  IF check(p1, "T_COMMA") THEN param_list(match(p1, "T_COMMA"), acc1)
             ELSE [p |-> p1, l |-> acc1, ok |-> TRUE]

\* switch: the statement loop of a case or default body.  The loop has no
\* had_error test: once an iteration leaves the parser unchanged, every
\* later one does, and the loop never ends (p.hung).
case_body(p, acc) ==
    IF p.hung THEN [p |-> p, l |-> acc]
    ELSE IF check(p, "T_CASE") \/ check(p, "T_DEFAULT") \/ check(p, "T_RBRACE")
    THEN [p |-> p, l |-> acc]
    ELSE IF check(p, "T_NEWLINE") THEN case_body(match(p, "T_NEWLINE"), acc)
    ELSE LET st == statement(p)
         IN  IF st.p = p THEN [p |-> [p EXCEPT !.hung = TRUE], l |-> acc]
             ELSE case_body(st.p, PushIf(acc, st.n))

\* switch: while (!check(p, T_RBRACE) && !check(p, T_EOF)); ok: no early return
switch_body(p, cases, def_case) ==
    IF check(p, "T_RBRACE") \/ check(p, "T_EOF") \/ p.had_error \/ p.hung
    THEN [p |-> p, cases |-> cases, def_case |-> def_case, ok |-> TRUE]
    ELSE IF check(p, "T_CASE")
    THEN LET val == expression(match(p, "T_CASE"))
             p1 == consume(val.p, "T_COLON", "Expected ':' after case value")
             b == case_body(p1, <<>>)
         IN  switch_body(b.p,
                         IF val.n # NullNode
                         THEN nodelist_push(cases, ast_case(val.n, b.l)) ELSE cases,
                         def_case)
    ELSE IF check(p, "T_DEFAULT")
    THEN LET p1 == consume(match(p, "T_DEFAULT"), "T_COLON", "Expected ':' after default")
             b == case_body(p1, def_case)
         IN  switch_body(b.p, cases, b.l)
    ELSE IF check(p, "T_NEWLINE") THEN switch_body(match(p, "T_NEWLINE"), cases, def_case)
    ELSE [p |-> SyntaxError(p, "Expected 'case' or 'default' inside switch"),
          cases |-> cases, def_case |-> def_case, ok |-> FALSE]

\* while (!check(p, T_RBRACE) && !check(p, T_EOF)) { ... } consume(p, T_RBRACE)
block(p, list) ==
    IF check(p, "T_RBRACE") \/ check(p, "T_EOF")
    THEN [p |-> consume(p, "T_RBRACE", "Expected '}'"), l |-> list]
    ELSE IF p.had_error THEN [p |-> p, l |-> list]
    ELSE IF check(p, "T_NEWLINE") THEN block(match(p, "T_NEWLINE"), list)
    ELSE LET st == statement(p) IN block(st.p, PushIf(list, st.n))

function_def(p) ==
    IF p.had_error THEN PN(p, NullNode)
    ELSE IF ~check(p, "T_IDENT")
    THEN PN(SyntaxError(p, "Expected function name after 'func'"), NullNode)
    ELSE LET name == p.cur.lexeme
             p1 == consume(advance(p), "T_LPAREN", "Expected '('")
             ps == IF ~check(p1, "T_RPAREN") THEN param_list(p1, <<>>)
                   ELSE [p |-> p1, l |-> <<>>, ok |-> TRUE]
         IN  IF ~ps.ok THEN PN(ps.p, NullNode)
             ELSE LET p2 == consume(ps.p, "T_RPAREN", "Expected ')'")
                      p3 == consume(p2, "T_LBRACE", "Expected '{'")
                      b == block([p3 EXCEPT !.inside_function = TRUE], <<>>)
                      p4 == [b.p EXCEPT !.inside_function = FALSE]
                  IN  PN(p4, IF ~p4.had_error THEN ast_funcdef(name, ps.l, b.l)
                             ELSE NullNode)

\* statement, T_LET: names, optional values, count validation, LET or GROUP
let_stmt(p) ==
    LET ns == let_names(p, <<>>)
    IN  IF ~ns.ok THEN PN(ns.p, NullNode)
        ELSE LET vs == IF check(ns.p, "T_EQ") THEN let_values(match(ns.p, "T_EQ"), <<>>)
                       ELSE [p |-> ns.p, l |-> <<>>]
                 name_count == Len(ns.l)
                 val_count == Len(vs.l)
                 lets == [k \in 1..name_count |->
                            ast_let(ns.l[k], IF val_count > 0 THEN vs.l[k] ELSE NullNode)]
             IN  IF val_count > 0 /\ val_count # name_count
                 THEN PN(SyntaxError(vs.p, "Variable count does not match value count"),
                         NullNode)
                 ELSE IF Len(lets) = 1 THEN PN(vs.p, lets[1])
                 ELSE PN(vs.p, ast_group(lets))

\* statement, T_IF
if_stmt(p) ==
    LET p1 == consume(p, "T_LPAREN", "Expected '(' after if")
        cond == expression(p1)
        p2 == consume(cond.p, "T_RPAREN", "Expected ')' after condition")
        p3 == consume(match(p2, "T_NEWLINE"), "T_LBRACE", "Expected '{'")
        then_b == block(p3, <<>>)
        p4 == match(then_b.p, "T_NEWLINE")
        else_b ==
            IF ~check(p4, "T_ELSE") THEN [p |-> p4, l |-> <<>>]
            ELSE LET p5 == match(match(p4, "T_ELSE"), "T_NEWLINE")
                 IN  IF check(p5, "T_IF")
                     THEN LET p6 == consume(match(p5, "T_IF"), "T_LPAREN", "Expected '('")
                              econd == expression(p6)
                              p7 == consume(econd.p, "T_RPAREN", "Expected ')'")
                              p8 == consume(match(p7, "T_NEWLINE"), "T_LBRACE", "Expected '{'")
                              e_then == block(p8, <<>>)
                          IN  [p |-> e_then.p,
                               l |-> IF econd.n # NullNode
                                     THEN <<ast_if(econd.n, e_then.l, <<>>)>> ELSE <<>>]
                     ELSE block(consume(p5, "T_LBRACE", "Expected '{'"), <<>>)
    IN  PN(else_b.p, IF cond.n # NullNode /\ ~else_b.p.had_error
                     THEN ast_if(cond.n, then_b.l, else_b.l) ELSE NullNode)

\* statement, T_WHILE
while_stmt(p) ==
    LET p1 == consume(p, "T_LPAREN", "Expected '(' after while")
        cond == expression(p1)
        p2 == consume(cond.p, "T_RPAREN", "Expected ')'")
        p3 == consume(match(p2, "T_NEWLINE"), "T_LBRACE", "Expected '{'")
        body == block(p3, <<>>)
    IN  PN(body.p, IF cond.n # NullNode /\ ~body.p.had_error
                   THEN ast_while(cond.n, body.l) ELSE NullNode)

\* statement, T_FOR
for_stmt(p) ==
    LET p1 == consume(p, "T_LPAREN", "Expected '(' after for")
        init == statement(p1)
        p2 == consume(init.p, "T_SEMICOLON", "Expected ';' after loop initializer")
        cond == expression(p2)
        p3 == consume(cond.p, "T_SEMICOLON", "Expected ';' after loop condition")
        incr == statement(p3)
        p4 == consume(incr.p, "T_RPAREN", "Expected ')' after loop increment")
        p5 == consume(match(p4, "T_NEWLINE"), "T_LBRACE", "Expected '{' for loop body")
        body == block(p5, <<>>)
    IN  PN(body.p, IF ~body.p.had_error
                   THEN ast_for(init.n, cond.n, incr.n, body.l) ELSE NullNode)

\* statement, T_SWITCH
switch_stmt(p) ==
    LET p1 == consume(p, "T_LPAREN", "Expected '(' after switch")
        expr == expression(p1)
        p2 == consume(expr.p, "T_RPAREN", "Expected ')'")
        p3 == consume(p2, "T_LBRACE", "Expected '{' starting switch block")
        b == switch_body(p3, <<>>, <<>>)
        p4 == consume(b.p, "T_RBRACE", "Expected '}' ending switch")
    IN  IF ~b.ok THEN PN(b.p, NullNode)
        ELSE PN(p4, IF expr.n # NullNode /\ ~p4.had_error
                    THEN ast_switch(expr.n, b.cases, b.def_case) ELSE NullNode)

\* statement: an expression, or an assignment to an identifier or an index
assign_stmt(p) ==
    LET expr == expression(p)
    IN  IF ~check(expr.p, "T_EQ") THEN expr
        ELSE LET p1 == match(expr.p, "T_EQ")
             IN  IF expr.n # NullNode /\ expr.n.kind = "NODE_IDENT"
                 THEN LET val == expression(p1)
                      IN  PN(val.p, IF val.n # NullNode /\ ~val.p.had_error
                                    THEN ast_assign(expr.n.name, val.n) ELSE NullNode)
                 ELSE IF expr.n # NullNode /\ expr.n.kind = "NODE_INDEX"
                 THEN LET val == expression(p1)
                      IN  PN(val.p, IF val.n # NullNode /\ ~val.p.had_error
                                    THEN ast_assign_index(expr.n.target, expr.n.index, val.n)
                                    ELSE NullNode)
                 ELSE PN(SyntaxError(p1, "Invalid assignment target"), NullNode)

statement_def(p) ==
    CASE p.had_error -> PN(p, NullNode)
      [] check(p, "T_FUNC") -> function_def(match(p, "T_FUNC"))
      [] check(p, "T_LET") -> let_stmt(match(p, "T_LET"))
      [] check(p, "T_PRINT") ->
            LET p1 == consume(match(p, "T_PRINT"), "T_LPAREN", "Expected '(' after print")
                a == IF ~check(p1, "T_RPAREN") THEN expr_list(p1, <<>>)
                     ELSE [p |-> p1, l |-> <<>>]
            IN  PN(consume(a.p, "T_RPAREN", "Expected ')' after print args"), ast_print(a.l))
      [] check(p, "T_RETURN") ->
            LET p1 == match(p, "T_RETURN")
                expr == IF check(p1, "T_RBRACE") THEN PN(p1, NullNode) ELSE expression(p1)
            IN  PN(expr.p, ast_return(expr.n))
      [] check(p, "T_BREAK") -> PN(match(p, "T_BREAK"), ast_break)
      [] check(p, "T_CONTINUE") -> PN(match(p, "T_CONTINUE"), ast_continue)
      [] check(p, "T_IF") -> if_stmt(match(p, "T_IF"))
      [] check(p, "T_WHILE") -> while_stmt(match(p, "T_WHILE"))
      [] check(p, "T_FOR") -> for_stmt(match(p, "T_FOR"))
      [] check(p, "T_SWITCH") -> switch_stmt(match(p, "T_SWITCH"))
      [] OTHER -> assign_stmt(p)

\* parser_parse_program: the body of while (!check(p, T_EOF)) past the
\* had_error test; a newline is skipped and adds no item
program_item_def(p) ==
    IF check(p, "T_NEWLINE") THEN PN(match(p, "T_NEWLINE"), NullNode)
    ELSE IF check(p, "T_FUNC") THEN function_def(match(p, "T_FUNC"))
    ELSE statement(p)

parse(fn, p) ==
    CASE fn = "advance" -> advance_def(p)
      [] fn = "expression" -> expression_def(p)
      [] fn = "unary" -> unary_def(p)
      [] fn = "statement" -> statement_def(p)
      [] fn = "program_item" -> program_item_def(p)

(***************************************************************************)
(* main() in file mode (main.cpp), parser_parse_program and interpret      *)
(***************************************************************************)
\* env_register_stdlib: the names bound, in order, and the natives they hold
Stdlib == <<
    <<"assert", "lib_assert">>, <<"abs", "lib_math_abs">>, <<"min", "lib_math_min">>,
    <<"max", "lib_math_max">>, <<"clamp", "lib_math_clamp">>,
    <<"sign", "lib_math_sign">>, <<"pow", "lib_math_pow">>,
    <<"sqrt", "lib_math_sqrt">>, <<"cbrt", "lib_math_cbrt">>,
    <<"exp", "lib_math_exp">>, <<"ln", "lib_math_ln">>, <<"log10", "lib_math_log10">>,
    <<"sin", "lib_math_sin">>, <<"cos", "lib_math_cos">>, <<"tan", "lib_math_tan">>,
    <<"asin", "lib_math_asin">>, <<"acos", "lib_math_acos">>,
    <<"atan", "lib_math_atan">>, <<"atan2", "lib_math_atan2">>,
    <<"sinh", "lib_math_sinh">>, <<"cosh", "lib_math_cosh">>,
    <<"tanh", "lib_math_tanh">>, <<"floor", "lib_math_floor">>,
    <<"ceil", "lib_math_ceil">>, <<"round", "lib_math_round">>,
    <<"trunc", "lib_math_trunc">>, <<"fract", "lib_math_fract">>,
    <<"mod", "lib_math_mod">>, <<"rand", "lib_math_rand">>,
    <<"srand", "lib_math_srand">>, <<"trand", "lib_math_trand">>,
    <<"deg_to_rad", "lib_math_deg_to_rad">>, <<"rad_to_deg", "lib_math_rad_to_deg">>,
    <<"lerp", "lib_math_lerp">>, <<"len", "lib_str_len">>,
    <<"str_len", "lib_str_len">>, <<"is_empty", "lib_str_is_empty">>,
    <<"concat", "lib_str_concat">>, <<"substring", "lib_str_substring">>,
    <<"slice", "lib_str_slice">>, <<"char_at", "lib_str_char_at">>,
    <<"index_of", "lib_str_index_of">>, <<"last_index_of", "lib_str_last_index_of">>,
    <<"contains", "lib_str_contains">>, <<"starts_with", "lib_str_starts_with">>,
    <<"ends_with", "lib_str_ends_with">>, <<"to_upper", "lib_str_to_upper">>,
    <<"to_lower", "lib_str_to_lower">>, <<"trim", "lib_str_trim">>,
    <<"trim_left", "lib_str_trim_left">>, <<"trim_right", "lib_str_trim_right">>,
    <<"replace", "lib_str_replace">>, <<"reverse", "lib_str_reverse">>,
    <<"repeat", "lib_str_repeat">>, <<"pad_left", "lib_str_pad_left">>,
    <<"pad_right", "lib_str_pad_right">>, <<"split", "lib_str_split">>,
    <<"join", "lib_str_join">>, <<"is_digit", "lib_str_is_digit">>,
    <<"is_alpha", "lib_str_is_alpha">>, <<"is_alnum", "lib_str_is_alnum">>,
    <<"is_space", "lib_str_is_space">>, <<"to_int", "lib_str_to_int">>,
    <<"to_float", "lib_str_to_float">>, <<"sort", "lib_list_sort">>,
    <<"shuffle", "lib_list_shuffle">>, <<"clock", "lib_time_clock">>,
    <<"vec_add", "lib_vec_add">>, <<"vec_sub", "lib_vec_sub">>,
    <<"vec_mul", "lib_vec_mul">>, <<"vec_div", "lib_vec_div">>,
    <<"open", "lib_file_open">>, <<"close", "lib_file_close">>,
    <<"read", "lib_file_read">>, <<"read_line", "lib_file_read_line">>,
    <<"write", "lib_file_write">>, <<"file_exists", "lib_file_exists">>,
    <<"remove_file", "lib_file_remove">>, <<"flush", "lib_file_flush">>
>>

\* env_register_stdlib: env_def(env, name, value_native(fn)) for each entry
\* of the table in turn; env_def stores nothing once the scope is full
env_register_stdlib(heap, env) ==
    LET room == MAX_VARS - Len(heap[env].vars)
        n == IF Len(Stdlib) <= room THEN Len(Stdlib) ELSE room
    IN  [heap EXCEPT ![env].vars =
            @ \o [k \in 1..n |-> [name |-> Stdlib[k][1],
                                  val |-> value_native(Stdlib[k][2])]]]

env_create_global(heap) == env_create(heap, 0)

\* the source files main() is run on
LexicalCall == "let x = 1\nfunc f() { print(x) }\nf()"
CallerLocal == "let x = 1\nfunc f() { print(x) }\nfunc g() { let x = 2\nf() }\ng()"
BreakInIf == "let i = 0\nwhile (i < 3) { i++\nif (i == 2) { break }\nprint(i) }"
BreakInSwitch == "let i = 0\nwhile (i < 2) { i++\nswitch (i) { case 1: break }\nprint(i) }"
ContinueInFor == "for (let i = 0; i < 3; i++) { if (i == 1) { continue }\nprint(i) }"
ReturnNested ==
    "func f() { let i = 0\nwhile (true) { i++\nif (i == 2) { return i } }\nprint(9) }\nprint(f())"
ReturnInIncrement ==
    "func f() { for (let i = 0; i < 3; return i) { print(i)\nprint(7) } }\nprint(f())"
ErrorInCase == "switch (1) { case 1: ) }"
OpenDefault == "switch (1) { default: print(1)"
ErrorInIf == "if (1 { print(1) }"
InputNoParen == "input 5"
CallOnNumber == "5(1"
LetCountAfterError == "let a, b = )"
LetNoName == "let = 3"
ModZero == "print(1 % 0)\nprint(2)"
FloatModZero == "print(5.0 % 0.5)\nprint(2)"
DivZero == "print(1 / 0, 7 % 4, 1.5 / 0)\nprint(2)"
AssertFalse == "assert(false)\nprint(1)"
AssertTrue == "assert(true)\nprint(1)"
ShadowExample == "let x = 1; { let x = 2; print(x); } print(x);"
ShadowInIf == "let x = 1\nif (true) { let x = 2\nprint(x) }\nprint(x)"
ForExample == "for (let i = 0; i < 3; i++) { let seen = i; }\nprint(i == 3)"
ForExampleNewlines == "for (let i = 0; i < 3; i++) { let seen = i\n}\nprint(i == 3)"
AssignUnbound == "y = 1\nprint(5)"
AssignUnboundInIf == "let x = 1\nif (true) { y = 2\nprint(x) }\nprint(x, y)"
AssignBound == "let x = 1\nfunc f() { x = 2 }\nf()\nprint(x)"
ShadowBareBlock == "let x = 1\n{ let x = 2\nprint(x) }\nprint(x)"
ContinueAfterCall ==
    "func f() { break }\nf()\nlet n = 0\nfor (let i = 0; n < 3; n++) { continue }\nprint(n)"
SwitchFirstMatch ==
    "let i = 0\nswitch (i++) { case 0: print(1)\ncase 1: print(2)\ncase 0: print(3)\ndefault: print(9) }\nprint(i)"
SwitchDefault == "switch (5) { case 1: print(1)\ndefault: print(9)\n}\nprint(0)"
SwitchNested ==
    "switch (1) { case 1: switch (2) { case 2: print(2) }\nprint(1)\ncase 2: print(3) }\nprint(0)"
SwitchNull == "switch (u) { case u: print(1)\ndefault: print(0) }\nprint(u == u)"
SwitchNearFloat ==
    "switch (0.0000001) { case 0: print(1)\ncase 0.0: print(2)\ndefault: print(0) }\nprint(0.0000001 == 0)"
SwitchKinds ==
    "switch (2) { case true: print(1)\ncase \"2\": print(2)\ncase 2.0: print(3) }\nprint(2 == 2.0)"
UserLen == "func len(a, b) { return 7 }\nprint(len(1, 2))\nprint(len(\"ab\"))"
UserAssert == "func assert(v) { print(9) }\nassert(false)\nprint(1)"
ArgsInOrder == "let x = 0\nfunc g(a, b) { print(a, b, x) }\ng(x++, x++)"
ArgsMissing == "let x = 0\nfunc g(a, b) { print(a, b, x) }\ng(x++)"
ArgsExtra == "let x = 0\nlet y = 0\nfunc f(a) { print(a, x, y) }\nf(x++, y++)\nprint(x, y)"

SortIdent == "let l = [3, 1, 2]\nsort(l)\nprint(l)"
SortStrings == "let l = [\"b\", \"a\", 2]\nsort(l)\nprint(l)"
ShuffleIdent == "let l = [1, 2, 3]\nshuffle(l)\nprint(l)"
SortLiteral == "let l = [3, 1, 2]\nsort([3, 1, 2])\nprint(l)"
SortIndexed == "let r = [2, 1]\nlet m = [r, 0]\nsort(m[0])\nshuffle(m[0])\nprint(m, r)"
SortCallResult == "let l = [2, 1]\nfunc same() { return l }\nsort(same())\nprint(l)"
CopyByLet == "let a = [1, 2]\nlet b = a\nb[0] = 9\nappend(a, 3)\nprint(a, b)"
CopyByAssign == "let a = [1]\nlet b = [2]\nb = a\nb[0] = 3\nappend(b, 4)\nprint(a, b)"
CopyByCall == "func f(p) { p[0] = 7\nreturn p }\nlet a = [1, 2]\nlet c = f(a)\nc[1] = 8\nprint(a, c)"
CopyByIndex == "let r = [1]\nlet m = [r, 2]\nlet q = m[0]\nq[0] = 5\nr[0] = 6\nm[0][0] = 4\nprint(r, m, q)"
ReadOutOfRange == "let l = [1, 2]\nprint(l[2], l[-1], l[1.5])\nlet n = 5\nprint(n[0], \"ab\"[0], u[0])\nprint(l[1])"
WriteOutOfRange == "let l = [1, 2]\nl[2] = 9\nl[-1] = 9\nprint(l)\nl[1] = 3\nprint(l)"
IncExample == "let x = 5; let y = x++;"
IncExampleNewlines == "let x = 5\nlet y = x++\nprint(x, y)"
IncKinds ==
    "let x = 5\nlet s = \"a\"\nfunc f() { let x = 1.5\nprint(x--, x, s++, u--) }\nf()\nprint(x--, x, s, u)"
LetMulti == "let a = 1, b = a + 1;"
LetMultiNewlines == "let a = 1, b = a + 1\nprint(a, b)"
LetNamesFirst == "let a, b = 1, a + 1\nprint(a, b)"
LetMultiInBody == "let a = 5\nif (true) { let a, b = 1, a + 1\nprint(a, b) }\nprint(a, b)"
LetCountMismatch == "let b, c = 1;"
LetCountMismatchBare == "let b, c = 1\nprint(3)"
IfChainFirst ==
    "let x = 1\nif (x == 1) { print(1) } else if (x < 3) { print(2) } else { print(3) }\nprint(0)"
IfChainSecond ==
    "let x = 2\nif (x == 1) { print(1) } else if (x < 3) { print(2) } else { print(3) }\nprint(0)"
IfChainElse ==
    "let x = 3\nif (x == 1) { print(1) } else if (x < 3) { print(2) } else { print(3) }\nprint(0)"
IfElseIf == "let x = 2\nif (x < 3) { print(1) } else if (x == 2) { print(2) }\nprint(0)"
IfElseIfNone == "let x = 3\nif (x == 1) { print(1) } else if (x == 2) { print(2) }\nprint(0)"
IfElse == "let x = 3\nif (x == 1) { print(1) } else { print(3) }\nprint(0)"
SemiInBody == "if (true) { let x = 5; let y = x++; }\nprint(1)"
SemiInFunc == "func f() { let x = 5; return x; }\nprint(f())"
SemiAfterCall == "print(1);"
WhileBodyLet == "let n = 0\nwhile (n < 3) { print(n, t)\nlet t = n\nn++ }\nprint(n, t)"
ForBodyLet == "for (let i = 0; i < 4; i++) { print(i, t)\nlet t = i\ni++ }"
ForNestedLet ==
    "for (let i = 0; i < 2; i++) { let t = i\nfor (let j = 0; j < 2; j++) { let u = t + j } }"
FuncRedefine == "func f() { return 1 }\nfunc f() { return 2 }\nprint(f())"
FuncInner ==
    "func f() { return 1 }\nif (true) { func f() { return 2 }\nprint(f()) }\nprint(f())"
FuncRedefineInner ==
    "func f() { return 1 }\nfunc g() { func f() { return 2 }\nfunc f() { return 3 }\nreturn f() }\nprint(g(), f())"
TopBreak == "break\nlet n = 0\nwhile (n < 3) { n++ }\nprint(n)"
TopReturn == "return 5\nif (true) { print(1)\nprint(2) }\nprint(3)"
TopContinue == "continue\nfunc f() { print(1) }\nf()\nprint(2)"
CloseOnce == "let f = open(\"a\", \"w\")\nclose(f)\nprint(2)"
CloseTwice == "let f = open(\"a\", \"w\")\nclose(f)\nclose(f)\nprint(1)"
CloseNotOpened == "let f = open(\"\", \"r\")\nclose(f)\nclose(5)\nprint(f)"
Programs ==
    {LexicalCall, CallerLocal, BreakInIf, BreakInSwitch, ContinueInFor, ReturnNested,
     ReturnInIncrement, ErrorInCase, OpenDefault, ErrorInIf, InputNoParen, CallOnNumber,
     LetCountAfterError, LetNoName, ModZero, FloatModZero, DivZero, AssertFalse,
     AssertTrue, ShadowExample, ShadowInIf, ForExample, ForExampleNewlines,
     AssignUnbound, AssignUnboundInIf, AssignBound, ShadowBareBlock, ContinueAfterCall,
     SwitchFirstMatch, SwitchDefault, SwitchNested, SwitchNull, SwitchNearFloat,
     SwitchKinds, UserLen, UserAssert, ArgsInOrder, ArgsMissing, ArgsExtra,
     SortIdent, SortStrings, ShuffleIdent, SortLiteral, SortIndexed, SortCallResult,
     CopyByLet, CopyByAssign, CopyByCall, CopyByIndex,
     ReadOutOfRange, WriteOutOfRange,
     IncExample, IncExampleNewlines, IncKinds,
     LetMulti, LetMultiNewlines, LetNamesFirst, LetMultiInBody, LetCountMismatch, LetCountMismatchBare,
     IfChainFirst, IfChainSecond, IfChainElse, IfElseIf, IfElseIfNone, IfElse,
     SemiInBody, SemiInFunc, SemiAfterCall,
     WhileBodyLet, ForBodyLet, ForNestedLet,
     FuncRedefine, FuncInner, FuncRedefineInner,
     TopBreak, TopReturn, TopContinue,
     CloseOnce, CloseTwice, CloseNotOpened}

NoParser ==
    [src |-> "", lx |-> 0, cur |-> make_token("T_EOF", ""), has_cur |-> FALSE,
     had_error |-> FALSE, inside_function |-> FALSE, errs |-> <<>>, hung |-> FALSE]
NoCall == [op |-> "none"]

\* static ReturnException return_exception; static LoopException loop_exception
NoReturn == [active |-> FALSE, value |-> value_null]
NoLoop == [break_active |-> FALSE, continue_active |-> FALSE]

Init ==
    /\ pc = "start"
    /\ src_text \in Programs
    /\ build \in Builds
    /\ stdin = <<>>
    /\ rng \in Seeds
    /\ parser = NoParser
    /\ items = <<>>
    /\ prog = NullNode
    /\ ip = 0
    /\ envs = <<>>
    /\ return_exception = NoReturn
    /\ loop_exception = NoLoop
    /\ out = <<>>
    /\ errs = <<>>
    /\ trace = <<>>
    /\ status = "running"
    /\ cur = 0
    /\ call = NoCall
    /\ nops = 0

\* main: env_create_global, env_register_stdlib, read_file, parser_init
Startup ==
    /\ pc = "start"
    /\ envs' = env_register_stdlib(env_create_global(envs), 1)
    /\ parser' = parser_init(src_text)
    /\ pc' = "parse"
    /\ UNCHANGED <<src_text, build, stdin, rng, items, prog, ip, return_exception,
                   loop_exception, out, errs, trace, status, cur, call, nops>>

\* parser_parse_program: one iteration of while (!check(p, T_EOF)).  An
\* iteration that never returns leaves the driver at "hung".
Collect(stmt) ==
    /\ parser' = stmt.p
    /\ items' = PushIf(items, stmt.n)
    /\ pc' = IF stmt.p.hung THEN "hung" ELSE "parse"

ParseStep ==
    /\ pc = "parse"
    /\ ~check(parser, "T_EOF")
    /\ ~parser.had_error
    /\ Collect(program_item(parser))
    /\ UNCHANGED <<src_text, build, stdin, rng, prog, ip, envs, return_exception,
                   loop_exception, out, errs, trace, status, cur, call, nops>>

\* parser_parse_program returns; main: parser_close, if (!prog) return 1
ParseFinish ==
    /\ pc = "parse"
    /\ check(parser, "T_EOF") \/ parser.had_error
    /\ prog' = IF parser.had_error THEN NullNode ELSE ast_block(items)
    /\ items' = IF parser.had_error THEN <<>> ELSE items
    /\ parser' = [parser EXCEPT !.has_cur = FALSE]
    /\ IF parser.had_error
       THEN /\ pc' = "failed"
            /\ envs' = env_free(envs, 1)
       ELSE /\ pc' = "interpret"
            /\ UNCHANGED envs
    /\ UNCHANGED <<src_text, build, stdin, rng, ip, return_exception, loop_exception,
                   out, errs, trace, status, cur, call, nops>>

\* interpret: the flags are reset before the first statement
InterpretBegin ==
    /\ pc = "interpret"
    /\ return_exception' = [return_exception EXCEPT !.active = FALSE]
    /\ loop_exception' = NoLoop
    /\ ip' = 1
    /\ pc' = "run"
    /\ UNCHANGED <<src_text, build, stdin, rng, parser, items, prog, envs, out, errs,
                   trace, status, cur, call, nops>>

\* interpret: exec_stmt(env, block_node.items.items[i])
\* the state of the process as exec_stmt sees it, and the state it leaves
Process ==
    [envs |-> envs, return_exception |-> return_exception,
     loop_exception |-> loop_exception, out |-> out, errs |-> errs,
     trace |-> trace, status |-> status, build |-> build, stdin |-> stdin, rng |-> rng,
     fuel |-> MaxIter, depth |-> 0]

Becomes(t) ==
    /\ envs' = t.envs
    /\ return_exception' = t.return_exception
    /\ loop_exception' = t.loop_exception
    /\ out' = t.out
    /\ errs' = t.errs
    /\ trace' = t.trace
    /\ status' = t.status
    /\ stdin' = t.stdin
    /\ rng' = t.rng

ExecTop ==
    /\ pc = "run"
    /\ status = "running"
    /\ ip <= Len(prog.items)
    /\ Becomes(exec_stmt(Process, 1, prog.items[ip]))
    /\ ip' = ip + 1
    /\ UNCHANGED <<pc, src_text, build, parser, items, prog, cur, call, nops>>

\* interpret returns and main frees the tree and the global scope, or the
\* process has ended inside exec_stmt
Exit ==
    /\ pc = "run"
    /\ status # "running" \/ ip > Len(prog.items)
    /\ pc' = "done"
    /\ envs' = IF status = "running" THEN env_free(envs, 1) ELSE envs
    /\ UNCHANGED <<src_text, build, stdin, rng, parser, items, prog, ip,
                   return_exception, loop_exception, out, errs, trace, status,
                   cur, call, nops>>

Next == Startup \/ ParseStep \/ ParseFinish \/ InterpretBegin \/ ExecTop \/ Exit

Spec == Init /\ [][Next]_vars

(***************************************************************************)
(* SpecRepl: main without a file argument (main.cpp run_repl).  The global *)
(* scope persists from line to line; each line is parsed into a tree of    *)
(* its own, interpreted, and the tree is freed.  stdin holds the lines not *)
(* read yet and cur counts the trees parser_parse_program has built.       *)
(***************************************************************************)
MaxLines == 2       \* SpecRepl: lines typed in one session
DefLine == "func f() { return 1 }"
CallLine == "print(f())"
LetLine == "let x = 2"
UseLine == "print(x)"
ExitLine == "exit"
BadLine == "print("
Lines == {DefLine, CallLine, LetLine, UseLine, ExitLine, BadLine}
Sessions == UNION {[1..n -> Lines] : n \in 0..MaxLines}

\* what a call through a pointer to a freed AstNode can do: find the node's
\* bytes still in place, or fault
UseAfterFree == {"intact", "fault"}

InitRepl ==
    /\ pc = "start"
    /\ src_text = ""
    /\ build = "quiet"
    /\ stdin \in Sessions
    /\ rng = <<0>>
    /\ parser = NoParser
    /\ items = <<>>
    /\ prog = NullNode
    /\ ip = 0
    /\ envs = <<>>
    /\ return_exception = NoReturn
    /\ loop_exception = NoLoop
    /\ out = <<>>
    /\ errs = <<>>
    /\ trace = <<>>
    /\ status = "running"
    /\ cur = 0
    /\ call = NoCall
    /\ nops = 0

\* main: env_create_global, env_register_stdlib, run_repl(global_env)
ReplStart ==
    /\ pc = "start"
    /\ envs' = env_register_stdlib(env_create_global(envs), 1)
    /\ pc' = "prompt"
    /\ UNCHANGED <<src_text, build, stdin, rng, parser, items, prog, ip,
                   return_exception, loop_exception, out, errs, trace, status, cur,
                   call, nops>>

\* strncmp(line, "exit", 4) == 0
IsExit(line) == Len(line) >= Len(ExitLine) /\ SubSeq(line, 1, Len(ExitLine)) = ExitLine

\* run_repl: fgets reads a line, parser_init(&parser, line)
ReplRead ==
    /\ pc = "prompt"
    /\ stdin # <<>> /\ ~IsExit(Head(stdin))
    /\ parser' = parser_init(Head(stdin))
    /\ stdin' = Tail(stdin)
    /\ items' = <<>>
    /\ cur' = cur + 1
    /\ pc' = "parse"
    /\ UNCHANGED <<src_text, build, rng, prog, ip, envs, return_exception,
                   loop_exception, out, errs, trace, status, call, nops>>

\* run_repl: end of input or the exit command; main: env_free_global
ReplQuit ==
    /\ pc = "prompt"
    /\ IF stdin = <<>> THEN TRUE ELSE IsExit(Head(stdin))
    /\ stdin' = IF stdin = <<>> THEN stdin ELSE Tail(stdin)
    /\ envs' = env_free(envs, 1)
    /\ pc' = "done"
    /\ UNCHANGED <<src_text, build, rng, parser, items, prog, ip, return_exception,
                   loop_exception, out, errs, trace, status, cur, call, nops>>

\* the tree of the k-th line: a function definition node carries the tree it
\* was allocated in, which is what the pointer env_def_func stores refers to
InTree(tree, k) ==
    [tree EXCEPT !.items =
        [i \in 1..Len(tree.items) |->
            IF tree.items[i].kind = "NODE_FUNC_DEF"
            THEN tree.items[i] @@ [tree |-> k] ELSE tree.items[i]]]

\* run_repl: parser_parse_program returns; if (prog) interpret, else loop again
ReplParsed ==
    /\ pc = "parse"
    /\ check(parser, "T_EOF") \/ parser.had_error
    /\ prog' = IF parser.had_error THEN NullNode ELSE InTree(ast_block(items), cur)
    /\ items' = <<>>
    /\ parser' = [parser EXCEPT !.has_cur = FALSE]
    /\ pc' = IF parser.had_error THEN "prompt" ELSE "interpret"
    /\ UNCHANGED <<src_text, build, stdin, rng, ip, envs, return_exception,
                   loop_exception, out, errs, trace, status, cur, call, nops>>

\* the calls of t made since the current state whose function entry points
\* into a tree that ast_free has released
Dangling(t) ==
    {k \in (Len(trace) + 1)..Len(t.trace) :
        /\ t.trace[k].ev = "call"
        /\ "tree" \in DOMAIN t.trace[k].fn
        /\ t.trace[k].fn.tree # cur}

\* the process is ended by a signal
Faults ==
    /\ status' = "crashed"
    /\ UNCHANGED <<envs, return_exception, loop_exception, out, errs, trace, stdin, rng>>

\* interpret: one top-level statement of the line; a call through a dangling
\* function entry has undefined behaviour
Runs(t) ==
    IF Dangling(t) = {} THEN Becomes(t)
    ELSE \E how \in UseAfterFree : IF how = "intact" THEN Becomes(t) ELSE Faults

ReplExec ==
    /\ pc = "run"
    /\ status = "running"
    /\ ip <= Len(prog.items)
    /\ Runs(exec_stmt(Process, 1, prog.items[ip]))
    /\ ip' = ip + 1
    /\ UNCHANGED <<pc, src_text, build, parser, items, prog, cur, call, nops>>

\* run_repl: ast_free(prog), and the loop prompts again; or the process has
\* ended inside interpret
ReplFree ==
    /\ pc = "run"
    /\ status # "running" \/ ip > Len(prog.items)
    /\ prog' = IF status = "running" THEN NullNode ELSE prog
    /\ pc' = IF status = "running" THEN "prompt" ELSE "done"
    /\ UNCHANGED <<src_text, build, stdin, rng, parser, items, ip, envs,
                   return_exception, loop_exception, out, errs, trace, status,
                   cur, call, nops>>

NextRepl ==
    ReplStart \/ ReplRead \/ ReplQuit \/ ParseStep \/ ReplParsed \/ InterpretBegin
        \/ ReplExec \/ ReplFree

SpecRepl == InitRepl /\ [][NextRepl]_vars

(***************************************************************************)
(* SpecEnv: the environment API (env.cpp) called as the interpreter calls  *)
(* it: scopes are created below the innermost live scope and freed         *)
(* innermost first.                                                        *)
(***************************************************************************)
EnvVals == {value_int(1), value_int(2)}

\* the global scope after env_register_stdlib
StdGlobal == env_register_stdlib(env_create_global(<<>>), 1)

\* the global scope once a program has declared n more variables by let
Declared(n) ==
    [StdGlobal EXCEPT ![1].vars =
        @ \o [k \in 1..n |-> [name |-> "v" \o ToString(k), val |-> value_int(k)]]]

\* the global scope once a program has defined the function x twice and y once
FuncsDefined ==
    env_def_func(env_def_func(env_def_func(StdGlobal,
        1, "x", [kind |-> "NODE_FUNC_DEF", name |-> "x", params |-> <<>>, body |-> <<>>]),
        1, "y", [kind |-> "NODE_FUNC_DEF", name |-> "y", params |-> <<"x">>, body |-> <<>>]),
        1, "x", [kind |-> "NODE_FUNC_DEF", name |-> "x", params |-> <<"y">>, body |-> <<>>])

RECURSIVE Depth(_, _)
Depth(heap, e) == IF e = 0 THEN 0 ELSE 1 + Depth(heap, heap[e].parent)

InitEnv ==
    /\ pc = "env"
    /\ envs \in {StdGlobal, FuncsDefined, Declared(MAX_VARS - Len(Stdlib) - 1)}
    /\ cur = 1
    /\ call = NoCall
    /\ nops = 0
    /\ errs = <<>>
    /\ src_text = ""
    /\ build = "quiet"
    /\ stdin = <<>>
    /\ rng = <<0>>
    /\ parser = NoParser
    /\ items = <<>>
    /\ prog = NullNode
    /\ ip = 0
    /\ return_exception = NoReturn
    /\ loop_exception = NoLoop
    /\ out = <<>>
    /\ trace = <<>>
    /\ status = "running"

EnvFixed ==
    UNCHANGED <<pc, src_text, build, stdin, rng, parser, items, prog, ip,
                return_exception, loop_exception, out, trace, status>>

\* Env *scope = env_create(e)
CreateScope ==
    /\ pc = "env"
    /\ nops < MaxOps
    /\ Depth(envs, cur) < MaxDepth
    /\ envs' = env_create(envs, cur)
    /\ cur' = Len(envs')
    /\ call' = [op |-> "env_create", e |-> cur', parent |-> cur]
    /\ nops' = nops + 1
    /\ UNCHANGED errs
    /\ EnvFixed

\* env_free(scope)
FreeScope ==
    /\ pc = "env"
    /\ nops < MaxOps
    /\ cur # 1
    /\ envs' = env_free(envs, cur)
    /\ cur' = envs[cur].parent
    /\ call' = [op |-> "env_free", e |-> cur]
    /\ nops' = nops + 1
    /\ UNCHANGED errs
    /\ EnvFixed

\* env_def(e, name, val)
Define ==
    /\ pc = "env"
    /\ nops < MaxOps
    /\ \E name \in Names, val \in EnvVals :
          /\ envs' = env_def(envs, cur, name, val)
          /\ call' = [op |-> "env_def", e |-> cur, name |-> name, val |-> val]
    /\ nops' = nops + 1
    /\ UNCHANGED <<cur, errs>>
    /\ EnvFixed

\* env_assign(e, name, val)
Assign ==
    /\ pc = "env"
    /\ nops < MaxOps
    /\ \E name \in Names, val \in EnvVals :
          LET a == env_assign(envs, cur, name, val)
          IN  /\ envs' = a.heap
              /\ errs' = IF a.err THEN Append(errs, "ERR_NAME") ELSE errs
              /\ call' = [op |-> "env_assign", e |-> cur, name |-> name,
                          val |-> val, err |-> a.err]
    /\ nops' = nops + 1
    /\ UNCHANGED cur
    /\ EnvFixed

\* env_get(e, name)
Lookup ==
    /\ pc = "env"
    /\ nops < MaxOps
    /\ \E name \in Names :
          call' = [op |-> "env_get", e |-> cur, name |-> name,
                   loc |-> env_get(envs, cur, name)]
    /\ nops' = nops + 1
    /\ UNCHANGED <<envs, cur, errs>>
    /\ EnvFixed

NextEnv == CreateScope \/ FreeScope \/ Define \/ Assign \/ Lookup

SpecEnv == InitEnv /\ [][NextEnv]_vars

(***************************************************************************)
(* Properties                                                              *)
(***************************************************************************)
Ended == pc \in {"done", "failed"}
Events(kind) == {k \in 1..Len(trace) : trace[k].ev = kind}

\* C1: a called function's scope has the scope of its definition as parent,
\* and no free variable of the body resolves differently through the new
\* scope than it does at the definition site.
C1_LexicalScope ==
    \A k \in Events("call") :
        /\ trace[k].parent = trace[k].home
        /\ trace[k].free = {}

\* the scope of the innermost loop iteration around scope e within the
\* running function body (0: e lies in no loop body of that function)
RECURSIVE NearestLoop(_)
NearestLoop(e) ==
    IF e = 0 \/ \E k \in Events("call") : trace[k].scope = e THEN 0
    ELSE IF \E k \in Events("iter") : trace[k].scope = e THEN e
    ELSE NearestLoop(envs[e].parent)

\* C2: a break or continue executed in a loop body is consumed by the
\* nearest enclosing while or for loop, at the end of the iteration it was
\* executed in and before any other statement runs; a break ends that loop;
\* and nothing but a while or for loop consumes a break or continue.
C2_OnlyLoopsConsume ==
    /\ \A k \in Events("consume_break") \cup Events("consume_continue") :
          trace[k].by \in {"NODE_WHILE", "NODE_FOR"}
    /\ status = "running" =>
          \A k \in Events("break") \cup Events("continue") :
              LET loop == NearestLoop(trace[k].scope)
                  later == {j \in (k + 1)..Len(trace) :
                              trace[j].ev = "consume_" \o trace[k].ev}
                  j == Min(later)
              IN  loop # 0 =>
                    /\ later # {}
                    /\ trace[j].scope = loop
                    /\ \A m \in (k + 1)..(j - 1) : trace[m].ev # "stmt"
                    /\ (trace[k].ev = "break" /\ j < Len(trace)) =>
                          ~(/\ trace[j + 1].ev = "iter"
                            /\ envs[trace[j + 1].scope].parent = envs[loop].parent)

\* C3: once a return has executed in a function body, no statement and no
\* loop iteration of that body runs before the call ends, the call yields
\* the returned value, and the return flag is inactive after the call.
C3_ReturnEndsBody ==
    \A k \in Events("return") :
        trace[k].depth >= 1 =>
            LET exits == {j \in Events("call_exit") :
                            j > k /\ trace[j].depth = trace[k].depth}
                last == IF exits = {} THEN Len(trace) ELSE Min(exits)
            IN  /\ \A j \in (k + 1)..last :
                      ~(/\ trace[j].ev \in {"stmt", "iter", "case"}
                        /\ trace[j].depth >= trace[k].depth)
                /\ exits # {} => /\ trace[last].v = trace[k].v
                                 /\ ~trace[last].active

\* C4: parser_parse_program terminates on every input, and after a syntax
\* error it returns null.
C4_ParserTerminates ==
    /\ pc # "hung"
    /\ (pc \notin {"start", "parse"} /\ parser.had_error) => prog = NullNode

\* C5: one parse reports at most one diagnostic.
C5_OneDiagnostic == Len(parser.errs) <= 1

\* C6: only a failed assert ends the process; a binary operation, also a
\* remainder or a division by zero, yields a value and the run goes on.
C6_OnlyAssertStops ==
    /\ status \in {"running", "exited"}
    /\ status = "exited" => /\ errs # <<>>
                            /\ errs[Len(errs)] \in {"ERR_ASSERTION", "ERR_ARGUMENT"}
    /\ (pc = "done" /\ src_text \in {ModZero, FloatModZero, DivZero})
          => out[Len(out)] = "2 "

\* C7: the let of a child scope shadows the outer binding inside the child
\* only; the example of the claim prints 2 and then 1.
C7_ShadowExample ==
    (Ended /\ src_text \in {ShadowExample, ShadowBareBlock}) => out = <<"2 ", "1 ">>

\* C8: the for loop of the claim reports no error, and i == 3 is true
\* after it.
C8_ForExample ==
    (Ended /\ src_text \in {ForExample, ForExampleNewlines}) =>
        /\ parser.errs = <<>>
        /\ errs = <<>>
        /\ out = <<"true ">>

\* C9: assigning to a name no scope of the chain binds reports a Name
\* error and nothing else, leaves every scope as it was, raises no signal
\* and does not end the process, so that the statements after it run.
C9_AssignUnbound ==
    /\ \A k \in Events("assign") :
          ~trace[k].bound => /\ trace[k].reported = <<"ERR_NAME">>
                             /\ trace[k].same
                             /\ ~trace[k].signal
    /\ (pc = "done" /\ src_text = AssignUnbound) => out = <<"5 ">>
    /\ (pc = "done" /\ src_text = AssignUnboundInIf) => out = <<"1 ", "1 null ">>

\* C9 witness: the run of "y = 1" followed by a print has ended
C9_Witness ==
    /\ pc = "done"
    /\ src_text = AssignUnbound
    /\ \E k \in Events("assign") : ~trace[k].bound /\ trace[k].name = "y"
    /\ errs = <<"ERR_NAME">>
    /\ out = <<"5 ">>

\* C10: after env_def(scope, name, v), env_get(scope, name) finds, in that
\* scope, a binding whose value is v, however many bindings the scope holds.
C10_DefAlwaysInserts ==
    call.op = "env_def" =>
        LET loc == env_get(envs, call.e, call.name)
        IN  /\ loc # NullLoc
            /\ loc.env = call.e
            /\ Deref(envs, loc) = call.val

\* the "switch" event of the NODE_SWITCH that event m belongs to: the last
\* one before m that has not ended yet (0: none)
SwitchOf(m) ==
    LET Between(s, kind) == Cardinality({j \in (s + 1)..(m - 1) : trace[j].ev = kind})
        open == {s \in 1..(m - 1) :
                    /\ trace[s].ev = "switch"
                    /\ Between(s, "switch") = Between(s, "switch_exit")}
    IN  IF open = {} THEN 0 ELSE Max(open)

\* C11: a switch evaluates its subject once, compares the cases in source
\* order, runs at most one body, the body of the first case that matches,
\* and runs the default body exactly when no case matched.
C11_SwitchOneBody ==
    /\ \A s \in Events("switch") :
          LET Mine(kind) == {m \in Events(kind) : SwitchOf(m) = s}
              cases == Mine("case")
              cmps == Mine("cmp")
              hit == {m \in cmps : trace[m].eq}
          IN  /\ Cardinality(Mine("subject")) <= 1
              /\ Cardinality(cases) <= 1
              /\ \A c \in cmps :
                    /\ trace[c].k = Cardinality({c2 \in cmps : c2 <= c})
                    /\ \A c2 \in cmps : c2 < c => ~trace[c2].eq
              /\ \A m \in cases :
                    IF trace[m].k > 0
                    THEN \E c \in hit : c < m /\ trace[c].k = trace[m].k
                    ELSE hit = {} /\ Cardinality(cmps) = trace[s].ncases
              /\ Mine("switch_exit") # {} =>
                    /\ Cardinality(Mine("subject")) = 1
                    /\ hit # {} => \E m \in cases : trace[m].k > 0
                    /\ (hit = {} /\ trace[s].ndefault > 0) => \E m \in cases : trace[m].k = 0
    /\ (pc = "done" /\ src_text = SwitchFirstMatch) => out = <<"1 ", "1 ">>
    /\ (pc = "done" /\ src_text = SwitchDefault) => out = <<"9 ", "0 ">>
    /\ (pc = "done" /\ src_text = SwitchNested) => out = <<"2 ", "1 ", "0 ">>

\* C11 witness: a switch whose first and third case match has run the
\* first body only, and a switch without a match has run its default
C11_Witness ==
    /\ pc = "done"
    /\ src_text = SwitchFirstMatch
    /\ out = <<"1 ", "1 ">>
    /\ \E m \in Events("case") : trace[m].k = 1
    /\ Events("switch_exit") # {}

\* C12: a case value matches the subject exactly when subject == value
\* evaluates to true.
C12_SwitchEqIsEq ==
    /\ \A m \in Events("cmp") : trace[m].eq = trace[m].same
    /\ (pc = "done" /\ src_text = SwitchNull) => out = <<"1 ", "true ">>
    /\ (pc = "done" /\ src_text = SwitchNearFloat) => out = <<"1 ", "true ">>

\* C13: a call named len, append, type, int, float or assert never runs a
\* user-defined function, and never a native held by a variable other than
\* the assert of the standard library; assert(false) ends the process.
C13_BuiltinsFirst ==
    /\ \A k \in Events("call") :
          trace[k].name \notin {"len", "append", "type", "int", "float", "assert"}
    /\ \A k \in Events("native") :
          /\ trace[k].name \notin {"len", "append", "type", "int", "float"}
          /\ trace[k].name = "assert" => trace[k].fn = "lib_assert"
    /\ (pc = "done" /\ src_text = UserAssert) => (status = "exited" /\ out = <<>>)

\* the event of kind open that event m lies in: the last one before m that
\* no event of kind close has ended yet (0: none)
Opener(m, open, close) ==
    LET Between(s, kind) == Cardinality({j \in (s + 1)..(m - 1) : trace[j].ev = kind})
        unclosed == {s \in 1..(m - 1) :
                        /\ trace[s].ev = open
                        /\ Between(s, open) = Between(s, close)}
    IN  IF unclosed = {} THEN 0 ELSE Max(unclosed)

\* C14: when the body of a user function starts, every argument written
\* at the call site has been evaluated, once and from left to right, in the
\* scope of the call site.
C14_ArgsOnce ==
    /\ \A c \in Events("call") :
          LET b == Opener(c, "args_begin", "call")
              args == {a \in Events("arg") : a > b /\ Opener(a, "args_begin", "call") = b}
          IN  /\ b # 0
              /\ Cardinality(args) = trace[c].nargs
              /\ \A a \in args :
                    /\ trace[a].k = Cardinality({a2 \in args : a2 <= a})
                    /\ trace[a].scope = trace[b].scope
    /\ (pc = "done" /\ src_text = ArgsInOrder) => out = <<"0 1 2 ">>
    /\ (pc = "done" /\ src_text = ArgsMissing) => out = <<"0 null 1 ">>
    /\ (pc = "done" /\ src_text = ArgsExtra) => out = <<"0 1 1 ", "1 1 ">>

\* the list natives that change their argument in place
InPlace == {"lib_list_sort", "lib_list_shuffle"}
IsPermutation(a, b) ==
    /\ Len(a) = Len(b)
    /\ \E f \in [1..Len(a) -> 1..Len(a)] :
          /\ \A i, j \in 1..Len(a) : i # j => f[i] # f[j]
          /\ \A i \in 1..Len(a) : a[i] = b[f[i]]
\* the calls of an in-place native on one list
InPlaceCalls ==
    {m \in 1..Len(trace) :
        /\ trace[m].ev = "native_exit" /\ trace[m].fn \in InPlace
        /\ Len(trace[m].argv0) = 1 /\ trace[m].argv0[1].type = "VAL_LIST"}
\* C15: after sort or shuffle is called on a bare identifier bound to a list,
\* that variable holds the items as the native rearranged them and no other
\* variable differs; called on any other expression, no variable differs
C15_InPlaceVisible ==
    \A m \in InPlaceCalls :
        LET c == trace[m]
            loc == c.byref[1]
        IN  IF loc # NullLoc
            THEN /\ IsPermutation(Deref(c.after, loc).list, c.argv0[1].list)
                 /\ Deref(c.after, loc).list = c.argv1[1].list
                 /\ c.after = [c.before EXCEPT ![loc.env].vars[loc.idx].val.list =
                                                 c.argv1[1].list]
            ELSE c.after = c.before
\* C15, its case: the program that sorts l by name has printed the items in
\* order, and a sort of a list literal has left a variable holding the same
\* items out of order
C15_Witness ==
    \/ /\ src_text = SortIdent /\ out = <<"[1, 2, 3] ">>
       /\ \E m \in InPlaceCalls : trace[m].byref[1] # NullLoc
                                   /\ trace[m].argv0[1].list # trace[m].argv1[1].list
    \/ /\ src_text = SortLiteral /\ out = <<"[3, 1, 2] ">>
       /\ \E m \in InPlaceCalls : trace[m].byref[1] = NullLoc
                                   /\ trace[m].argv0[1].list # trace[m].argv1[1].list

\* v, and every list inside v, has its items in a block of its own
RECURSIVE OwnBlocks(_)
OwnBlocks(v) ==
    v.type = "VAL_LIST" =>
        /\ v.items_of = NullRef
        /\ \A k \in 1..Len(v.list) : OwnBlocks(v.list[k])
\* the variables of heap other than the one ref is in
OtherVars(heap, ref) ==
    {loc \in {[env |-> e, idx |-> k] : e \in 1..Len(heap), k \in 1..MAX_VARS} :
        /\ loc.idx <= Len(heap[loc.env].vars)
        /\ ~(loc.env = ref.env /\ loc.idx = ref.idx)}
\* C16: every list a variable or the pending return value holds, at any
\* depth, has its items in a block no other list has; and an index assignment
\* or an append through a variable changes the value of no other variable
C16_CopiesShareNothing ==
    /\ \A e \in 1..Len(envs) : \A k \in 1..Len(envs[e].vars) :
            OwnBlocks(envs[e].vars[k].val)
    /\ OwnBlocks(return_exception.value)
    /\ \A m \in 1..Len(trace) :
          trace[m].ev = "store" =>
            /\ Len(trace[m].after) = Len(trace[m].before)
            /\ \A loc \in OtherVars(trace[m].before, trace[m].ref) :
                  Deref(trace[m].after, loc) = Deref(trace[m].before, loc)
\* C16, its case: the copies made by let, by a parameter, by return and by an
\* index expression have been written to and the originals print unchanged
C16_Witness ==
    /\ pc = "done"
    /\ \/ src_text = CopyByCall /\ out = <<"[1, 2] [7, 8] ">>
       \/ src_text = CopyByLet /\ out = <<"[1, 2, 3] [9, 2] ">>
       \/ src_text = CopyByIndex /\ out = <<"[6] [[4], 2] [5] ">>
    /\ \E m \in 1..Len(trace) :
          trace[m].ev = "store" /\ trace[m].after # trace[m].before

\* list[i] names an item: list is a list and i an integer from 0 to its length - 1
NamesItem(target, i) ==
    /\ target.type = "VAL_LIST" /\ i.type = "VAL_INT"
    /\ i.i >= 0 /\ i.i < Len(target.list)
\* C17: a read list[i] that names no item (i out of range or not an integer,
\* or list not a list) yields null and reports nothing; a write list[i] = v
\* with an integer i out of range reports exactly an Index error and leaves
\* every variable, the list included, as it was
C17_IndexStrictness ==
    \A m \in 1..Len(trace) :
        /\ trace[m].ev = "index" /\ ~NamesItem(trace[m].target, trace[m].i)
              => trace[m].v = value_null /\ trace[m].reported = <<>>
        /\ trace[m].ev = "assign_index" /\ trace[m].i.type = "VAL_INT"
           /\ (trace[m].i.i < 0 \/ trace[m].i.i >= trace[m].len)
              => trace[m].reported = <<"ERR_INDEX">> /\ trace[m].after = trace[m].before
\* C17, its case: the reads past the end, below 0, at a float and of a
\* non-list have printed null with no diagnostic, or the two writes out of
\* range have reported two Index errors and the list prints as it was
C17_Witness ==
    \/ /\ src_text = ReadOutOfRange /\ pc = "done" /\ errs = <<>>
       /\ out = <<"null null null ", "null null null ", "2 ">>
       /\ \E m \in 1..Len(trace) :
             trace[m].ev = "index" /\ trace[m].target.type = "VAL_LIST"
             /\ trace[m].i.type = "VAL_INT" /\ trace[m].i.i >= Len(trace[m].target.list)
    \/ /\ src_text = WriteOutOfRange /\ pc = "done"
       /\ errs = <<"ERR_INDEX", "ERR_INDEX">> /\ out = <<"[1, 2] ", "[1, 3] ">>

\* C18: a call assert(v) runs the assert of the library; with a falsy v it is
\* the last thing the process does: an Assertion diagnostic is reported and
\* the process exits, no statement after it running; with a truthy v it
\* returns and the run goes on (the two-line programs print 1 after a truthy
\* assert and nothing after a falsy one)
C18_AssertStops ==
    /\ \A k \in Events("call") : trace[k].name # "assert"
    /\ \A k \in Events("native") :
          (trace[k].fn = "lib_assert" /\ Len(trace[k].argv) = 1) =>
             IF lib_is_truthy(trace[k].argv[1])
             THEN k < Len(trace) /\ trace[k + 1].ev = "native_exit"
             ELSE /\ k = Len(trace) /\ status = "exited"
                  /\ errs # <<>> /\ errs[Len(errs)] = "ERR_ASSERTION"
    /\ (pc = "done" /\ src_text \in {AssertFalse, UserAssert})
          => (status = "exited" /\ out = <<>> /\ errs = <<"ERR_ASSERTION">>)
    /\ (pc = "done" /\ src_text = AssertTrue)
          => (status = "running" /\ out = <<"1 ">> /\ errs = <<>>)

\* the global variable name holds the integer i
GlobalInt(name, i) ==
    /\ envs # <<>>
    /\ \E k \in 1..Len(envs[1].vars) :
          envs[1].vars[k].name = name /\ envs[1].vars[k].val = value_int(i)
\* C19: x++ (x--) on a name bound to an int yields the int held before and
\* leaves the binding that lookup finds 1 greater (smaller), every other
\* binding as it was; on an unbound name or a non-numeric value it yields null
\* and changes nothing; after let x = 5; let y = x++; y is 5 and x is 6
C19_PostfixIncDec ==
    /\ \A m \in Events("NODE_INC") \cup Events("NODE_DEC") :
          LET c == trace[m]
              d == IF c.ev = "NODE_INC" THEN 1 ELSE -1
              old == IF c.loc # NullLoc THEN Deref(c.before, c.loc) ELSE value_null
          IN  /\ old.type = "VAL_INT" =>
                    /\ c.v = old
                    /\ c.after = [c.before EXCEPT ![c.loc.env].vars[c.loc.idx].val =
                                                    value_int(old.i + d)]
              /\ old.type \notin {"VAL_INT", "VAL_FLOAT"} =>
                    c.v = value_null /\ c.after = c.before
    /\ (Ended /\ src_text \in {IncExample, IncExampleNewlines})
          => (GlobalInt("x", 6) /\ GlobalInt("y", 5))

(***************************************************************************)
(* SpecBinop: eval_binop (interpreter.cpp) applied to integer operands     *)
(***************************************************************************)
Operands == (0 - MaxOperand)..MaxOperand
ArithOps == {"OP_ADD", "OP_SUB", "OP_MUL", "OP_DIV"}

InitBinop ==
    /\ pc = "binop"
    /\ build \in Builds
    /\ call = NoCall
    /\ nops = 0
    /\ envs = <<>>
    /\ cur = 0
    /\ errs = <<>>
    /\ src_text = ""
    /\ stdin = <<>>
    /\ rng = <<0>>
    /\ parser = NoParser
    /\ items = <<>>
    /\ prog = NullNode
    /\ ip = 0
    /\ return_exception = NoReturn
    /\ loop_exception = NoLoop
    /\ out = <<>>
    /\ trace = <<>>
    /\ status = "running"

\* eval_binop(op, value_int(a), value_int(b))
Binop ==
    /\ pc = "binop"
    /\ nops < MaxOps
    /\ \E op \in ArithOps, a \in Operands, b \in Operands :
          call' = [op |-> op, a |-> a, b |-> b,
                   v |-> eval_binop(build, op, value_int(a), value_int(b))]
    /\ nops' = nops + 1
    /\ UNCHANGED <<envs, cur, errs>>
    /\ EnvFixed

NextBinop == Binop

SpecBinop == InitBinop /\ [][NextBinop]_vars

\* C20: for integers a and b, a / b is the float a/b when b is not 0, also
\* when b divides a, and the integer 0 when b is 0; a + b, a - b and a * b
\* are the integers of that sum, difference and product
C20_IntArith ==
    (pc = "binop" /\ call # NoCall) =>
        CASE call.op = "OP_DIV" ->
                IF call.b = 0 THEN call.v = value_int(0)
                ELSE /\ call.v.type = "VAL_FLOAT"
                     /\ call.v.den > 0
                     /\ call.v.num * call.b = call.a * call.v.den
          [] call.op = "OP_ADD" -> call.v = value_int(call.a + call.b)
          [] call.op = "OP_SUB" -> call.v = value_int(call.a - call.b)
          [] call.op = "OP_MUL" -> call.v = value_int(call.a * call.b)
\* C20, its case: an exact division of integers has been evaluated
C20_Witness ==
    /\ pc = "binop" /\ call # NoCall
    /\ call.op = "OP_DIV" /\ call.a = 2 /\ call.b = 2
    /\ call.v.type = "VAL_FLOAT"

(***************************************************************************)
(* Multi-name let (parser.cpp statement, interpreter.cpp NODE_GROUP)       *)
(***************************************************************************)
\* C21: let a = 1, b = a + 1; succeeds with b == 2 (the names are bound left
\* to right in the current scope, each initializer evaluated after the names
\* before it are bound, and stay visible afterwards); a let with a non-zero
\* number of initializers different from its number of names is a parse error
C21_MultiLet ==
    /\ (Ended /\ src_text \in {LetMulti, LetMultiNewlines, LetNamesFirst})
          => (pc = "done" /\ GlobalInt("a", 1) /\ GlobalInt("b", 2))
    /\ (Ended /\ src_text = LetMultiInBody)
          => (out = <<"1 2 ", "5 null ">> /\ GlobalInt("a", 5))
    /\ (Ended /\ src_text \in {LetCountMismatch, LetCountMismatchBare})
          => (pc = "failed" /\ parser.errs # <<>> /\ out = <<>>)

(***************************************************************************)
(* if / else if / else (parser.cpp statement, interpreter.cpp NODE_IF)     *)
(***************************************************************************)
\* C22: an if / else if / else chain parses without error and runs exactly
\* one branch: the body of the first truthy condition, or the final else body
\* when no condition is truthy
C22_IfChain ==
    /\ (pc \in {"run", "done", "failed"}
            /\ src_text \in {IfChainFirst, IfChainSecond, IfChainElse, IfElseIf,
                              IfElseIfNone, IfElse})
          => (parser.errs = <<>> /\ pc # "failed")
    /\ (Ended /\ src_text \in {IfChainFirst, IfElseIf}) => out = <<"1 ", "0 ">>
    /\ (Ended /\ src_text = IfChainSecond) => out = <<"2 ", "0 ">>
    /\ (Ended /\ src_text \in {IfChainElse, IfElse}) => out = <<"3 ", "0 ">>
    /\ (Ended /\ src_text = IfElseIfNone) => out = <<"0 ">>

(***************************************************************************)
(* The ';' terminator (parser.cpp statement, block, parser_parse_program)  *)
(***************************************************************************)
\* C23: a simple statement may end with ';': let x = 5; let y = x++; parses
\* without a syntax error at top level and inside a braced body
C23_Semicolon ==
    (pc \in {"run", "done", "failed"}
        /\ src_text \in {IncExample, SemiInBody, SemiInFunc, SemiAfterCall})
      => (parser.errs = <<>> /\ pc # "failed")

(***************************************************************************)
(* Iteration scopes (interpreter.cpp NODE_WHILE, NODE_FOR)                 *)
(***************************************************************************)
\* the number of bindings held by the live scopes of a heap
RECURSIVE LiveBindings(_, _)
LiveBindings(heap, k) ==
    IF k > Len(heap) THEN 0
    ELSE (IF heap[k].live THEN Len(heap[k].vars) ELSE 0) + LiveBindings(heap, k + 1)

\* the event that opened the iteration the iter_end event m closes
IterOf(m) ==
    Max({k \in Events("iter") : k < m /\ trace[k].scope = trace[m].scope})

\* the start of the next iteration of the loop whose iteration ends at m
\* (0: the loop ended); a while loop runs no statement of its own level
\* between two iterations, a for loop owns the scope of its variable
NextIter(m) ==
    LET c == trace[m]
        cand == {k \in Events("iter") :
                    /\ k > m /\ trace[k].kind = c.kind
                    /\ trace[k].parent = c.parent /\ trace[k].depth = c.depth
                    /\ c.kind = "NODE_WHILE" =>
                          \A j \in (m + 1)..(k - 1) :
                              ~(trace[j].ev = "stmt" /\ trace[j].depth = c.depth)}
    IN  IF cand = {} THEN 0 ELSE Min(cand)

\* the names bound in scope e of a heap
BoundIn(heap, e) == {heap[e].vars[k].name : k \in 1..Len(heap[e].vars)}
\* the events between m and k that may write a binding
Writes(m, k) ==
    {j \in (m + 1)..(k - 1) :
        trace[j].ev \in {"NODE_INC", "NODE_DEC", "assign", "store", "call", "native",
                         "return"}}

\* C24: every iteration of a while or for loop runs its body in a newly
\* created, empty scope that is destroyed when the iteration ends: a name the
\* body declared with let resolves at the start of the next iteration as it
\* did at the start of this one (unbound if it was unbound), the number of
\* live bindings is the same at the start and the end of each iteration,
\* and the scope of the for-loop variable stays live with the value the
\* variable had at the end of the iteration, changed only by the increment
C24_IterationScopes ==
    /\ \A m \in Events("iter") :
          LET c == trace[m]
          IN  /\ c.scope = Len(c.heap) /\ c.scope # c.parent
              /\ c.heap[c.scope] =
                    [vars |-> <<>>, funcs |-> <<>>, parent |-> c.parent, live |-> TRUE,
                     freed |-> 0]
    /\ \A m \in Events("iter_end") :
          LET c == trace[m]
              o == trace[IterOf(m)]
              nx == NextIter(m)
          IN  /\ ~c.heap[c.scope].live
              /\ LiveBindings(c.heap, 1) = LiveBindings(o.heap, 1)
              /\ nx # 0 =>
                    /\ \A name \in BoundIn(c.heap, c.scope) :
                          env_get(trace[nx].heap, trace[nx].scope, name)
                            = env_get(o.heap, o.scope, name)
                    /\ LiveBindings(trace[nx].heap, 1) = LiveBindings(o.heap, 1)
              /\ (nx # 0 /\ c.kind = "NODE_FOR") =>
                    LET h == trace[nx].heap
                        w == Writes(m, nx)
                    IN  /\ h[c.parent].live
                        /\ BoundIn(h, c.parent) = BoundIn(c.heap, c.parent)
                        /\ w = {} => h = env_create(c.heap, c.parent)
                        /\ \A j \in w :
                              (w = {j} /\ trace[j].ev \in {"NODE_INC", "NODE_DEC"}) =>
                                  /\ trace[j].before = c.heap
                                  /\ h = env_create(trace[j].after, c.parent)

\* C24 witness: a for loop has finished whose body declared a name in an
\* iteration that was followed by another one
C24_Witness ==
    /\ pc = "done" /\ src_text = ForBodyLet /\ out = <<"0 null ", "2 null ">>
    /\ \E m \in Events("iter_end") :
          /\ trace[m].kind = "NODE_FOR" /\ NextIter(m) # 0
          /\ BoundIn(trace[m].heap, trace[m].scope) = {"t"}

(***************************************************************************)
(* env_assign (env.cpp)                                                    *)
(***************************************************************************)
\* the scopes env_get visits from e before it reaches scope target
RECURSIVE Below(_, _, _)
Below(heap, e, target) ==
    IF e = 0 \/ e = target THEN {} ELSE {e} \cup Below(heap, heap[e].parent, target)

\* C25: a successful env_assign(scope, name, v) changes exactly one binding,
\* the one env_get(scope, name) returned before the call - the most recent
\* declaration of the name in the innermost scope of the chain that has one -
\* which now holds v; the scopes afterwards differ from the scopes before in
\* the value of that binding and in nothing else (no other binding, no name,
\* no function entry, no parent link)
C25_AssignFrame ==
    [][(call'.op = "env_assign" /\ nops' = nops + 1 /\ ~call'.err) =>
          LET loc == env_get(envs, call'.e, call'.name)
          IN  /\ loc # NullLoc
              /\ envs[loc.env].vars[loc.idx].name = call'.name
              /\ \A k \in (loc.idx + 1)..Len(envs[loc.env].vars) :
                    envs[loc.env].vars[k].name # call'.name
              /\ \A e \in Below(envs, call'.e, loc.env) :
                    \A k \in 1..Len(envs[e].vars) : envs[e].vars[k].name # call'.name
              /\ Deref(envs', loc) = call'.val
              /\ envs' = [envs EXCEPT ![loc.env].vars[loc.idx].val = call'.val]
      ]_vars

\* C25 witness: an env_assign from an inner scope has succeeded on a name
\* declared twice in an outer scope; the newer declaration holds the value
\* and the older one still holds another value
C25_Witness ==
    /\ call.op = "env_assign" /\ ~call.err
    /\ LET loc == env_get(envs, call.e, call.name)
           old == FindVarFirst(envs[loc.env].vars, call.name)
       IN  /\ loc.env # call.e /\ old < loc.idx
           /\ Deref(envs, loc) = call.val
           /\ envs[loc.env].vars[old].val # call.val

(***************************************************************************)
(* env_get_func (env.cpp)                                                  *)
(***************************************************************************)
\* the function entry a lookup in env_get's order finds: innermost scope
\* first and, within one scope, the most recent definition first
RECURSIVE NewestFunc(_, _, _)
NewestFunc(heap, e, name) ==
    IF e = 0 THEN NullNode
    ELSE LET m == {k \in 1..Len(heap[e].funcs) : heap[e].funcs[k].name = name}
         IN  IF m # {} THEN heap[e].funcs[Max(m)].funcdef
             ELSE NewestFunc(heap, heap[e].parent, name)

\* C26: a call of a user function runs the definition that a lookup in
\* env_get's order finds - innermost scope first, most recent definition
\* first - so once a name is defined a second time in a scope, calls run the
\* newer definition
C26_NewestFunc ==
    /\ \A k \in Events("call") :
          trace[k].fn = NewestFunc(trace[k].heap, trace[k].from, trace[k].name)
    /\ (pc = "done" /\ src_text = FuncRedefine) => out = <<"2 ">>
    /\ (pc = "done" /\ src_text = FuncInner) => out = <<"2 ", "1 ">>
    /\ (pc = "done" /\ src_text = FuncRedefineInner) => out = <<"3 1 ">>

(***************************************************************************)
(* Scope lifetime (interpreter.cpp exec_stmt, eval_expr NODE_CALL)         *)
(***************************************************************************)
\* the statements that create a scope every time they run
ScopeKinds == {"NODE_IF", "NODE_FOR", "NODE_BLOCK"}

\* in a heap shape no live scope has a destroyed parent
ParentsLive(shape) ==
    \A e \in 1..Len(shape) :
        shape[e].live => (shape[e].parent = 0 \/ shape[shape[e].parent].live)

\* a statement, iteration or call that began with the scopes of shape before,
\* the first of its own being scope first, has ended with those of after:
\* each scope created meanwhile has been destroyed exactly once, and every
\* scope that existed before is as it was
ScopesReleased(before, first, after) ==
    /\ Len(after) >= first - 1
    /\ \A e \in 1..(first - 1) : after[e] = before[e]
    /\ \A e \in first..Len(after) : ~after[e].live /\ after[e].freed = 1
    /\ ParentsLive(after)

\* C27: every scope created for an if, a loop iteration, a for loop, a switch
\* case, a block or a function call is destroyed exactly once before that
\* statement, iteration or call completes, however it is left (normal end,
\* break, continue, return), and no scope is destroyed while a scope whose
\* parent it is remains live
C27_ScopesFreed ==
    /\ \A m \in Events("stmt_end") \cup Events("call_exit") :
          LET c == trace[m]
          IN  /\ ScopesReleased(c.before, Len(c.before) + 1, c.after)
              /\ (c.ev = "call_exit" \/ c.kind \in ScopeKinds) =>
                    Len(c.after) > Len(c.before)
    /\ \A m \in Events("iter_end") :
          LET c == trace[m]
              o == trace[IterOf(m)]
          IN  ScopesReleased(Shape(o.heap), o.scope, Shape(c.heap))
    /\ \A m \in Events("iter") : ParentsLive(Shape(trace[m].heap))
    /\ pc \in {"run", "done"} => ParentsLive(Shape(envs))

\* C27 witness: a function call has completed whose body was left by a
\* return inside an if inside a while loop
C27_Witness ==
    /\ pc = "done" /\ src_text = ReturnNested
    /\ \E m \in Events("stmt_end"), k \in Events("stmt_end"), x \in Events("call_exit") :
          /\ m < k /\ k < x
          /\ trace[m].kind = "NODE_IF" /\ trace[m].flags.ret
          /\ Len(trace[m].after) > Len(trace[m].before)
          /\ trace[k].kind = "NODE_WHILE" /\ trace[k].flags.ret
          /\ Len(trace[k].after) > Len(trace[k].before)
          /\ trace[x].after[trace[x].scope].freed = 1 /\ trace[k].after[trace[x].scope].live

(***************************************************************************)
(* The control-flow flags (interpreter.cpp interpret, NODE_CALL,           *)
(* NODE_RETURN / NODE_BREAK / NODE_CONTINUE)                               *)
(***************************************************************************)
NoFlags == [ret |-> FALSE, brk |-> FALSE, cont |-> FALSE]

\* C28: when a top-level statement, a loop statement or a function body
\* begins, none of the flags return, break, continue is set: a return, break
\* or continue outside any function or loop leaves no pending signal that
\* cuts short a later block, loop or call
C28_FlagsClear ==
    /\ (pc = "run" /\ status = "running" /\ ip <= Len(prog.items)) =>
          (~return_exception.active /\ ~loop_exception.break_active
             /\ ~loop_exception.continue_active)
    /\ \A m \in Events("stmt") :
          trace[m].kind \in {"NODE_WHILE", "NODE_FOR"} => trace[m].flags = NoFlags
    /\ \A m \in Events("call") : trace[m].flags = NoFlags
    /\ (pc = "done" /\ src_text = TopBreak) => out = <<"3 ">>
    /\ (pc = "done" /\ src_text = TopReturn) => out = <<"1 ", "2 ", "3 ">>
    /\ (pc = "done" /\ src_text = TopContinue) => out = <<"1 ", "2 ">>

(***************************************************************************)
(* Function entries and the trees they point into (main.cpp run_repl,      *)
(* env.cpp env_def_func)                                                   *)
(***************************************************************************)
\* the function entries of the live scopes that point into a released tree:
\* tree k is live from its parse until the ast_free that follows interpret
FreedEntries ==
    {d \in UNION {{envs[e].funcs[k].funcdef : k \in 1..Len(envs[e].funcs)} :
                    e \in {j \in 1..Len(envs) : envs[j].live}} :
        "tree" \in DOMAIN d /\ (d.tree # cur \/ prog = NullNode)}

\* C29: every function entry reachable from a live scope refers to an AST
\* node that has not been freed; in REPL mode a function defined on one line
\* can be called on a later line, the call running the function's body
C29_FuncNodesLive ==
    /\ FreedEntries = {}
    /\ status # "crashed"
    /\ (pc = "done" /\ cur = 2 /\ parser.src = CallLine /\ envs[1].funcs # <<>>)
          => out = <<"1 ">>

(***************************************************************************)
(* File handles (file_lib.cpp lib_file_close, interpreter.cpp NODE_CALL)   *)
(***************************************************************************)
\* the values bound in the live scopes of a heap
BoundValues(heap) ==
    UNION {{heap[e].vars[k].val : k \in 1..Len(heap[e].vars)} :
             e \in {j \in 1..Len(heap) : heap[j].live}}

\* C30: after close(f), f being a variable that holds an open file handle,
\* no variable holds that handle any more, and no later close(f) closes the
\* underlying file a second time
C30_CloseInvalidates ==
    /\ \A m \in Events("native_exit") :
          LET c == trace[m]
          IN  (c.fn = "lib_file_close" /\ Len(c.argv0) = 1
                 /\ get_file_ptr(c.argv0[1]) # 0)
                => c.argv0[1] \notin BoundValues(c.after)
    /\ \A m \in Events("fclose") : trace[m].open

====
